---- MODULE Spec2Model ----
(***************************************************************************)
(* A model of the AgroHunt plot-validation service (src/app):              *)
(*   - the overlap detector of app/modules/overlap.py                      *)
(*   - the lazy landmass loader of app/modules/geometry.py                 *)
(*   - the orchestrator validate_plot of app/main.py and the components    *)
(*     it calls;                                                           *)
(*   - the soil service of backend/app/soilgrids_service.py.               *)
(*                                                                         *)
(* Numbers.  Python floats are modelled by exact rationals in fixed point: *)
(*   scores and final_score      in units of 1/10000  (round(x, 4))        *)
(*   overlap ratio and score     in units of 1/1000   (round(x, 3))        *)
(*   weights                     in units of 1/1000000                     *)
(* A ratio that is not yet rounded is kept as a pair numerator/denominator *)
(* and compared by cross-multiplication.                                   *)
(*                                                                         *)
(* Geometry.  The plane is cut into atomic cells, cell c having area       *)
(* CellArea(c) in the metric projection.  A well-formed polygon is a       *)
(* non-empty set of cells, its area the sum of its cells' areas, the       *)
(* intersection of two polygons the intersection of their cell sets.       *)
(***************************************************************************)
EXTENDS Integers, Sequences, FiniteSets, TLC

VARIABLES
    LOCAL_PLOTS,    \* overlap.py's _LOCAL_PLOTS, the in-process overlap cache
    sev_ratio,      \* SpecSeverity: the ratio classified, in units of 1/RatioDen
    sev_out,        \* SpecSeverity: what _classify_severity returned for it
    fn_arg,         \* SpecTrapezoid, SpecCrop, SpecExplain: the arguments of the call
    fn_out,         \* SpecTrapezoid, SpecCrop, SpecExplain: what the call returned
    engine,         \* SpecEngine: the ScoringEngine under construction or built
    engine_call,    \* SpecEngine: the call of compute made on it
    soil,           \* SpecSoil: the call of fetch_soil_data under way
    config_weights, \* config.py's SCORING_WEIGHTS as deployed
    opc,            \* SpecOverlap: where each thread is in compute_overlap_score
    oreq,           \* SpecOverlap: each call's arguments
    opath,          \* SpecOverlap: the path each call took
    ores,           \* SpecOverlap: each call's result
    oseen,          \* SpecOverlap: _LOCAL_PLOTS as each call last read it
    ocalls,         \* SpecOverlap: calls made so far
    appendLog,      \* SpecOverlap: the entries the calls appended, in order
    traffic,        \* SpecOverlap: the polygons clients submit, the store's answers
    pc,             \* Spec: where validate_plot is in the request it serves
    req,            \* Spec: the PlotRequest
    env,            \* Spec: what the external providers answered to this request
    geometry_result,
    ndvi_result,
    landuse_result,
    crop_result,
    overlap_result,
    scoring_output,
    decision,
    explainability,
    calls,          \* Spec: the components validate_plot has called, in order
    served,         \* Spec: requests taken so far
    cache0,         \* Spec: _LOCAL_PLOTS when the request was taken
    prev,           \* Spec: the previous request's answers and response, when
                    \*       this request repeats it
    world_gdf,      \* geometry.py's _world_gdf
    world_buffered, \* geometry.py's _world_buffered
    wpc,            \* SpecWorld: where each thread is in _load_world_data
    wret,           \* SpecWorld: the pair each call returned
    loads,          \* SpecWorld: executions of gpd.read_file(DATA_PATH)
    wcalls          \* SpecWorld: calls made so far

fnVars ==
    <<sev_ratio, sev_out, fn_arg, fn_out, engine, engine_call, soil, config_weights>>

ovVars == <<opc, oreq, opath, ores, oseen, ocalls, appendLog, traffic>>

pipeVars ==
    <<pc, req, env, geometry_result, ndvi_result, landuse_result, crop_result,
      overlap_result, scoring_output, decision, explainability, calls, served,
      cache0, prev>>

worldVars == <<world_gdf, world_buffered, wpc, wret, loads, wcalls>>

vars == <<LOCAL_PLOTS, fnVars, ovVars, pipeVars, worldVars>>

\* ------------------------------------------------------------------------
\* Bounds of the model
\* ------------------------------------------------------------------------

\* Calls of compute_overlap_score in one run of SpecOverlap.
MaxCalls == 3

\* Calls of _load_world_data in one run of SpecWorld.
MaxWorldCalls == 3

\* Requests validate_plot serves in one run of Spec.
MaxRequests == 3

\* The ratios SpecSeverity classifies are 0/RatioDen .. RatioDen/RatioDen.
RatioDen == 1000

\* SpecTrapezoid: values and knots are 0, 5, ..., 5 * TrapMax.
TrapMax == 8

\* SpecCrop: each of rainfall, temperature, elevation takes CropGrid + 1 values.
CropGrid == 13

\* SpecGeometry: areas run from 0 to GeoGrid quarters of the large threshold.
GeoGrid == 24

\* SpecNdvi: the mean index takes NdviGrid + 1 values, pixel counts reach PixelMax.
NdviGrid == 8
PixelMax == 6

\* SpecLand: pixel counts reach LandPixels.
LandPixels == 12

\* ------------------------------------------------------------------------
\* Arithmetic helpers
\* ------------------------------------------------------------------------

Max(a, b) == IF a >= b THEN a ELSE b

Min(a, b) == IF a <= b THEN a ELSE b

\* Python's round(n/d, k) on the value scaled by 10^k: n/d (d > 0) rounded to
\* the nearest integer, ties to the even one.
RoundHalfEven(n, d) ==
    LET q == n \div d
        r == n % d
    IN  IF 2 * r < d THEN q
        ELSE IF 2 * r > d THEN q + 1
        ELSE IF q % 2 = 0 THEN q ELSE q + 1

\* max(0.0, min(x, 1.0)) on the numerator of x = n/d, d > 0.
Clamp01(n, d) == Max(0, Min(n, d))

\* ------------------------------------------------------------------------
\* Polygons
\* ------------------------------------------------------------------------

Cells == 1 .. 4

\* Area of one cell in the metric projection (_area_m2 of the cell).
CellArea(c) == CASE c = 1 -> 1 [] c = 2 -> 2 [] c = 3 -> 7 [] OTHER -> 10

RECURSIVE SumArea(_)
SumArea(cs) ==
    IF cs = {} THEN 0
    ELSE LET c == CHOOSE x \in cs : TRUE
         IN  CellArea(c) + SumArea(cs \ {c})

\* What shape(geojson) makes of a submitted GeoJSON mapping:
\*   "unparseable"  shape() raises
\*   "invalid"      a geometry with is_valid = False (self-intersecting ring)
\*   "empty"        an empty geometry (is_empty = True)
\*   "line"         a valid, non-empty geometry of area zero (Point, LineString)
\*   "ok"           a valid polygon covering the cells
Poly(kind, cells) == [kind |-> kind, cells |-> cells]

WholePlot == Poly("ok", {1, 2, 3, 4})
PlotTwo   == Poly("ok", {2})
PlotThree == Poly("ok", {3})

GoodPolygons == {WholePlot, PlotTwo, PlotThree}

BadPolygons ==
    {Poly("unparseable", {}), Poly("invalid", {1, 2}), Poly("empty", {}), Poly("line", {})}

Polygons == GoodPolygons \cup BadPolygons

Farmers == {"f1", "f2"}

\* _area_m2(geom)
AreaM2(geom) == SumArea(geom.cells)

\* polygon.is_valid and polygon.is_empty after a successful shape()
IsValid(polygon) == polygon.kind \in {"ok", "line", "empty"}

IsEmpty(polygon) == polygon.kind = "empty"

\* ------------------------------------------------------------------------
\* overlap.py
\* ------------------------------------------------------------------------

\* _classify_severity(overlap_ratio), the ratio being n/d with d > 0.
ClassifySeverity(n, d) ==
    IF n = 0 THEN "none"
    ELSE IF 10 * n < d THEN "minor"
    ELSE IF 10 * n < 3 * d THEN "moderate"
    ELSE "critical"

\* The dictionaries compute_overlap_score returns.  overlap_ratio and
\* overlap_score are in thousandths.
OverlapResult(ratio, score, severity, explanation) ==
    [overlap_ratio |-> ratio, overlap_score |-> score,
     severity |-> severity, explanation |-> explanation]

ErrorResult(explanation) == OverlapResult(0, 0, "error", explanation)

NoResult == OverlapResult(0, 0, "unset", "")

\* A cache entry, {"farmer_id": ..., "polygon": ...}.
Plot(farmer_id, polygon) == [farmer_id |-> farmer_id, polygon |-> polygon]

\* _try_cache_polygon's guard: the polygon is parsed, valid and not empty.
Cacheable(polygon) ==
    /\ polygon.kind # "unparseable"
    /\ IsValid(polygon)
    /\ ~IsEmpty(polygon)

ListAppendStale(current, seen, entry) == Append(seen, entry)

\* _LOCAL_PLOTS.append(entry): one atomic step on the list as it is now
\* (current); seen is the list as the call last read it.
ListAppend(current, seen, entry) == Append(current, entry)

TryCacheUnowned(current, seen, polygon, farmer_id) ==
    IF Cacheable(polygon)
    THEN ListAppend(current, seen, Plot("unknown", polygon))
    ELSE current

\* _try_cache_polygon(geojson_polygon, farmer_id): the new value of _LOCAL_PLOTS.
TryCachePolygon(current, seen, polygon, farmer_id) ==
    IF Cacheable(polygon)
    THEN ListAppend(current, seen, Plot(farmer_id, polygon))
    ELSE current

SkipNoPlot(plot, farmer_id) == FALSE

\* The loop's first test: a cached plot of the submitting farmer is skipped.
SkipOwnPlot(plot, farmer_id) == plot.farmer_id = farmer_id

\* polygon.intersection(existing)
Intersection(polygon, existing) == Poly("ok", polygon.cells \cap existing.cells)

\* One iteration of the loop over _LOCAL_PLOTS: the new max_overlap_area.
LoopBody(max_overlap_area, plot, polygon, farmer_id) ==
    IF SkipOwnPlot(plot, farmer_id) THEN max_overlap_area
    ELSE IF polygon.cells \cap plot.polygon.cells = {} THEN max_overlap_area
    ELSE Max(max_overlap_area, AreaM2(Intersection(polygon, plot.polygon)))

\* The loop over _LOCAL_PLOTS, from max_overlap_area = 0.
RECURSIVE LoopOverPlots(_, _, _, _)
LoopOverPlots(plots, max_overlap_area, polygon, farmer_id) ==
    IF plots = <<>> THEN max_overlap_area
    ELSE LoopOverPlots(Tail(plots),
                       LoopBody(max_overlap_area, Head(plots), polygon, farmer_id),
                       polygon, farmer_id)

\* _compute_local_overlap(geojson_polygon, farmer_id) when no call in it raises.
ComputeLocalOverlap(plots, polygon, farmer_id) ==
    IF polygon.kind = "unparseable" THEN ErrorResult("invalid geojson")
    ELSE IF ~IsValid(polygon) \/ IsEmpty(polygon) THEN ErrorResult("invalid or empty")
    ELSE IF AreaM2(polygon) <= 0 THEN ErrorResult("zero area")
    ELSE LET new_area == AreaM2(polygon)
             max_overlap_area == LoopOverPlots(plots, 0, polygon, farmer_id)
             ratio == Clamp01(max_overlap_area, new_area)
         IN  OverlapResult(RoundHalfEven(1000 * ratio, new_area),
                           RoundHalfEven(1000 * (new_area - ratio), new_area),
                           ClassifySeverity(ratio, new_area),
                           "local cache")

\* What supabase.rpc("check_overlap", ...).execute() can do: raise, answer
\* with no rows, or answer with a row {overlap_area, new_area}.  A row without
\* new_area reads as new_area = 0 (result.get("new_area", 0)).
StoreRow(overlap_area, new_area) ==
    [kind |-> "row", overlap_area |-> overlap_area, new_area |-> new_area]

StoreRaises == [kind |-> "raise", overlap_area |-> 0, new_area |-> 0]

StoreNoData == [kind |-> "nodata", overlap_area |-> 0, new_area |-> 0]

StoreResponses ==
    {StoreRaises, StoreNoData,
     StoreRow(0, 20), StoreRow(1, 20), StoreRow(7, 20), StoreRow(10, 20),
     StoreRow(25, 20), StoreRow(-1, 20), StoreRow(5, 0)}

\* Steps 3-5 of compute_overlap_score on a row of the store.
PrimaryResult(row) ==
    IF row.new_area = 0 THEN ErrorResult("zero area")
    ELSE LET ratio == Clamp01(row.overlap_area, row.new_area)
             score == RoundHalfEven(1000 * (row.new_area - row.overlap_area), row.new_area)
         IN  OverlapResult(RoundHalfEven(1000 * ratio, row.new_area),
                           Max(0, Min(score, 1000)),
                           ClassifySeverity(ratio, row.new_area),
                           "registered plots")

\* The except branch rewrites the explanation of an error result.
HandlerResult(result) ==
    IF result.severity = "error"
    THEN [result EXCEPT !.explanation = "computation failed"]
    ELSE result

\* ------------------------------------------------------------------------
\* geometry.py: validate_geometry
\* ------------------------------------------------------------------------

\* REGION_THRESHOLDS, in hectares; a continent not in the table reads the
\* "default" row.
RegionThresholds(continent) ==
    CASE continent = "Asia" -> [large |-> 200, extreme |-> 1000]
      [] continent = "Africa" -> [large |-> 300, extreme |-> 1500]
      [] continent = "Europe" -> [large |-> 500, extreme |-> 2000]
      [] continent = "North America" -> [large |-> 2000, extreme |-> 5000]
      [] continent = "South America" -> [large |-> 2000, extreme |-> 5000]
      [] continent = "Oceania" -> [large |-> 5000, extreme |-> 10000]
      [] OTHER -> [large |-> 500, extreme |-> 2000]

\* What the landmass reference and the metric projection say of a polygon:
\* on_land, continent ("none": no country intersects), area in hundredths of
\* a hectare, perimeter (0 or not), compactness in thousandths.
GeoFacts(on_land, continent, area, perimeter, compactness) ==
    [on_land |-> on_land, continent |-> continent, area |-> area,
     perimeter |-> perimeter, compactness |-> compactness]

GeometryResult(valid, score, reason) ==
    [valid |-> valid, geometry_score |-> score, reason |-> reason]

AreaPenaltyProgressiveOnly(area, large, extreme) ==
    IF area > 100 * large
    THEN Min(4000 * large, 15 * (area - 100 * large))
    ELSE 0

\* The progressive area penalty times large, in units of 1/10000; area in
\* hundredths of a hectare, large and extreme in hectares.
AreaPenaltyTimesLarge(area, large, extreme) ==
    IF area > 100 * large
    THEN IF area >= 100 * extreme
         THEN 4000 * large
         ELSE Min(4000 * large, 15 * (area - 100 * large))
    ELSE 0

\* The compactness penalty, in units of 1/10000.
ShapePenalty(compactness) ==
    IF compactness < 300 THEN Min(3000, 10 * (300 - compactness)) ELSE 0

\* validate_geometry(geojson_polygon); geometry_score in units of 1/10000.
ValidateGeometry(polygon, geo) ==
    LET thresholds == RegionThresholds(geo.continent)
        area == IF polygon.kind = "ok" THEN geo.area ELSE 0
        raw == 10000 * thresholds.large
               - AreaPenaltyTimesLarge(area, thresholds.large, thresholds.extreme)
               - ShapePenalty(geo.compactness) * thresholds.large
    IN  IF polygon.kind = "unparseable" THEN GeometryResult(FALSE, 0, "Invalid GeoJSON format")
        ELSE IF ~IsValid(polygon)
             THEN GeometryResult(FALSE, 0, "Invalid or self-intersecting polygon")
        ELSE IF IsEmpty(polygon) \/ ~geo.on_land
             THEN GeometryResult(FALSE, 0, "Polygon not located on recognized land area")
        ELSE IF area < 5 THEN GeometryResult(FALSE, 0, "Plot extremely small")
        ELSE IF geo.perimeter = 0 THEN GeometryResult(FALSE, 0, "Invalid polygon geometry")
        ELSE GeometryResult(TRUE, RoundHalfEven(Max(0, raw), thresholds.large),
                            IF geo.compactness < 300 THEN "Irregular or elongated plot"
                            ELSE IF area >= 100 * thresholds.extreme
                                 THEN "Extremely large land parcel"
                            ELSE IF area > 100 * thresholds.large
                                 THEN "Large commercial-scale plot"
                            ELSE "none")

\* ------------------------------------------------------------------------
\* ndvi.py: validate_ndvi
\* ------------------------------------------------------------------------

\* What Earth Engine answers: whether the query raises, the number of images,
\* the mean NDVI in thousandths, the vegetated and other pixel counts.
NdviData(raises, images, mean, veg, non_veg) ==
    [raises |-> raises, images |-> images, mean |-> mean, veg |-> veg, non_veg |-> non_veg]

NdviResult(score, reason) == [agriculture_score |-> score, reason |-> reason]

ValidateNdviUnclamped(data) ==
    IF data.images = 0 THEN NdviResult(0, "No satellite images available")
    ELSE LET total == data.veg + data.non_veg
         IN  IF total > 0
             THEN NdviResult(10 * RoundHalfEven(6 * data.mean * total + 4000 * data.veg,
                                                10 * total), "none")
             ELSE NdviResult(10 * RoundHalfEven(6 * data.mean, 10), "none")

\* validate_ndvi(geojson_polygon); agriculture_score in units of 1/10000
\* (the code rounds it to 3 decimals).
ValidateNdvi(data) ==
    IF data.images = 0 THEN NdviResult(0, "No satellite images available")
    ELSE LET total == data.veg + data.non_veg
             mean == Max(0, Min(1000, data.mean))
         IN  IF total > 0
             THEN NdviResult(10 * RoundHalfEven(6 * mean * total + 4000 * data.veg,
                                                10 * total), "none")
             ELSE NdviResult(10 * RoundHalfEven(6 * mean, 10), "none")

\* ------------------------------------------------------------------------
\* landuse.py: compute_land_use_score
\* ------------------------------------------------------------------------

LandData(raises, images, crop, non_crop) ==
    [raises |-> raises, images |-> images, crop |-> crop, non_crop |-> non_crop]

LandResult(score, explanation) == [land_score |-> score, explanation |-> explanation]

\* landuse.py's MIN_PIXEL_THRESHOLD
MIN_PIXEL_THRESHOLD == 10

ComputeLandUseScoreTenTooFew(data) ==
    IF data.images = 0 THEN LandResult(0, "No Dynamic World data available")
    ELSE IF data.crop + data.non_crop <= MIN_PIXEL_THRESHOLD
         THEN LandResult(0, "Polygon too small for reliable land classification")
    ELSE LandResult(RoundHalfEven(10000 * data.crop, data.crop + data.non_crop),
                    "cropland share")

\* compute_land_use_score(geojson_polygon); land_score in units of 1/10000.
ComputeLandUseScore(data) ==
    IF data.images = 0 THEN LandResult(0, "No Dynamic World data available")
    ELSE IF data.crop + data.non_crop < MIN_PIXEL_THRESHOLD
         THEN LandResult(0, "Polygon too small for reliable land classification")
    ELSE LandResult(RoundHalfEven(10000 * data.crop, data.crop + data.non_crop),
                    "cropland share")

\* ------------------------------------------------------------------------
\* crop_engine.py: trapezoidal_suitability, evaluate_crop
\* ------------------------------------------------------------------------

TrapezoidalRisingTwice(value, abs_min, opt_min, opt_max, abs_max) ==
    IF value <= abs_min \/ value >= abs_max THEN <<0, 1>>
    ELSE IF opt_min <= value /\ value <= opt_max THEN <<1, 1>>
    ELSE IF abs_min < value /\ value < opt_min THEN <<value - abs_min, opt_min - abs_min>>
    ELSE IF opt_max < value /\ value < abs_max THEN <<value - opt_max, abs_max - opt_max>>
    ELSE <<0, 1>>

\* trapezoidal_suitability(value, abs_min, opt_min, opt_max, abs_max), as the
\* fraction <<numerator, denominator>>.
TrapezoidalSuitability(value, abs_min, opt_min, opt_max, abs_max) ==
    IF value <= abs_min \/ value >= abs_max THEN <<0, 1>>
    ELSE IF opt_min <= value /\ value <= opt_max THEN <<1, 1>>
    ELSE IF abs_min < value /\ value < opt_min THEN <<value - abs_min, opt_min - abs_min>>
    ELSE IF opt_max < value /\ value < abs_max THEN <<abs_max - value, abs_max - opt_max>>
    ELSE <<0, 1>>

\* crop.strip().lower() on the crop names of the model.
Normalise(crop) ==
    CASE crop = " Rice" -> "rice"
      [] crop = "RICE" -> "rice"
      [] OTHER -> crop

\* The rows of the crop_requirements table: rainfall in mm, temperature in
\* degrees, elevation in metres, each (abs_min, opt_min, opt_max, abs_max).
CropRows ==
    [rice |-> [rain |-> <<800, 1200, 2000, 3000>>,
               temp |-> <<15, 22, 30, 38>>,
               elev |-> <<-10, 0, 1500, 2500>>]]

\* What the climate and elevation providers answer.
ClimateData(raises, rainfall, temperature, elevation) ==
    [raises |-> raises, rainfall |-> rainfall, temperature |-> temperature,
     elevation |-> elevation]

CropResult(score, flag) == [crop_score |-> score, climate_flag |-> flag]

RECURSIVE GCD(_, _)
GCD(a, b) == IF b = 0 THEN a ELSE GCD(b, a % b)

\* The fraction q in lowest terms.
Reduced(q) ==
    LET g == GCD(q[1], q[2])
    IN  <<q[1] \div g, q[2] \div g>>

\* The three suitabilities evaluate_crop computes for a crop of the table.
Suitabilities(crop, data) ==
    LET row == CropRows[Normalise(crop)]
    IN  [rainfall |-> Reduced(TrapezoidalSuitability(data.rainfall, row.rain[1],
                                  row.rain[2], row.rain[3], row.rain[4])),
         temperature |-> Reduced(TrapezoidalSuitability(data.temperature, row.temp[1],
                                  row.temp[2], row.temp[3], row.temp[4])),
         elevation |-> Reduced(TrapezoidalSuitability(data.elevation, row.elev[1],
                                  row.elev[2], row.elev[3], row.elev[4]))]

\* 0.45 * rainfall + 0.45 * temperature + 0.10 * elevation, in thousandths, as
\* a fraction.
WeightedSuitability(q) ==
    <<450 * q.rainfall[1] * q.temperature[2] * q.elevation[2]
        + 450 * q.temperature[1] * q.rainfall[2] * q.elevation[2]
        + 100 * q.elevation[1] * q.rainfall[2] * q.temperature[2],
      q.rainfall[2] * q.temperature[2] * q.elevation[2]>>

EvaluateCropNoGate(crop, data) ==
    LET w == WeightedSuitability(Suitabilities(crop, data))
    IN  CropResult(10 * RoundHalfEven(w[1], w[2]), "Climate conditions acceptable")

\* evaluate_crop(polygon_ee, crop, lat, lon) for a crop of the table;
\* crop_score in units of 1/10000 (the code rounds it to 3 decimals).
EvaluateCrop(crop, data) ==
    LET q == Suitabilities(crop, data)
        w == WeightedSuitability(q)
    IN  IF q.rainfall[1] = 0 THEN CropResult(0, "Rainfall unsuitable")
        ELSE CropResult(10 * RoundHalfEven(w[1], w[2]),
                        "Climate conditions acceptable")

\* ------------------------------------------------------------------------
\* config.py, scoring_engine.py
\* ------------------------------------------------------------------------

\* 1.0 in the unit of the weights.
WeightOne == 1000000

\* SCORING_WEIGHTS.
SCORING_WEIGHTS ==
    [geometry |-> 150000, ndvi |-> 250000, land |-> 250000, crop |-> 200000,
     overlap |-> 150000]

RECURSIVE SumOver(_, _)
SumOver(f, keys) ==
    IF keys = {} THEN 0
    ELSE LET k == CHOOSE x \in keys : TRUE
         IN  f[k] + SumOver(f, keys \ {k})

Abs(x) == IF x < 0 THEN -x ELSE x

\* math.isclose(a, b, rel_tol=1e-6): abs(a - b) <= 1e-6 * max(abs(a), abs(b)),
\* a and b in the same unit.
IsClose(a, b) == Abs(a - b) <= Max(Abs(a), Abs(b)) \div 1000000

WeightsAnySum(weights) == TRUE

\* _validate_weights passes: the weights sum to 1.0 within the tolerance.
WeightsValid(weights) == IsClose(SumOver(weights, DOMAIN weights), WeightOne)

ScoresStrictlyInside(weights, scores) ==
    \A m \in DOMAIN weights :
        m \in DOMAIN scores /\ 0 < scores[m] /\ scores[m] < 10000

\* compute's checks: every weighted module has a score, each in [0, 1].
ScoresAccepted(weights, scores) ==
    \A m \in DOMAIN weights :
        m \in DOMAIN scores /\ 0 <= scores[m] /\ scores[m] <= 10000

\* weight * value is kept as the pair hi, lo with
\* weight * value = 1000 * hi + lo and 0 <= lo, in units of 1/10^10.
ProductHi(weight, value) == (weight \div 1000) * value
ProductLo(weight, value) == (weight % 1000) * value

RoundDown4(hi, lo) == (hi + (lo \div 1000)) \div 1000

\* round(x, 4) of x = (1000 * hi + lo) / 10^10, in units of 1/10000.
Round4(hi, lo) ==
    LET t == hi + lo \div 1000
        q == t \div 1000
        rest == (t % 1000) * 1000 + (lo % 1000)
    IN  IF rest < 500000 THEN q
        ELSE IF rest > 500000 THEN q + 1
        ELSE IF q % 2 = 0 THEN q ELSE q + 1

ComputeTruncating(weights, scores) ==
    LET hi == [m \in DOMAIN weights |-> ProductHi(weights[m], scores[m])]
        lo == [m \in DOMAIN weights |-> ProductLo(weights[m], scores[m])]
    IN  [final_score |-> RoundDown4(SumOver(hi, DOMAIN weights),
                                    SumOver(lo, DOMAIN weights)),
         contribution_breakdown |->
             [m \in DOMAIN weights |-> RoundDown4(hi[m], lo[m])]]

\* ScoringEngine.compute(scores) when no check fails: final_score and the
\* contributions, in units of 1/10000.
Compute(weights, scores) ==
    LET hi == [m \in DOMAIN weights |-> ProductHi(weights[m], scores[m])]
        lo == [m \in DOMAIN weights |-> ProductLo(weights[m], scores[m])]
    IN  [final_score |-> Round4(SumOver(hi, DOMAIN weights),
                                SumOver(lo, DOMAIN weights)),
         contribution_breakdown |->
             [m \in DOMAIN weights |-> Round4(hi[m], lo[m])]]

\* PASS_THRESHOLD, in units of 1/10000.
PASS_THRESHOLD == 6500

\* compute's own decision, which validate_plot discards.
EngineDecision(final_score, threshold) ==
    IF final_score >= threshold THEN "PASS" ELSE "FAIL"

DecideByEngine(final_score) ==
    IF final_score >= 6500 THEN "PASS" ELSE "FAIL"

\* validate_plot's thresholds on final_score.
Decide(final_score) ==
    IF final_score >= 6500 THEN "PASS"
    ELSE IF final_score >= 4500 THEN "REVIEW"
    ELSE "FAIL"

\* ------------------------------------------------------------------------
\* explainability.py: generate_explainability
\* ------------------------------------------------------------------------

ExplainOverlapAtMost(geometry, ndvi, landuse, crop, overlap, verdict) ==
    << IF geometry.valid THEN "boundary verified" ELSE "boundary issue",
       IF landuse.land_score > 4000 THEN "land is agricultural"
       ELSE "land not clearly agricultural",
       IF ndvi.agriculture_score > 3000 THEN "healthy crop growth"
       ELSE "limited vegetation",
       IF crop.crop_score > 5000 THEN "climate suitable" ELSE "climate may not be ideal",
       IF overlap.overlap_score <= 700 THEN "possible boundary overlap"
       ELSE "no boundary conflicts",
       IF verdict = "PASS" THEN "successfully validated"
       ELSE IF verdict = "REVIEW" THEN "requires manual review"
       ELSE "could not be approved" >>

ExplainOverlapInverted(geometry, ndvi, landuse, crop, overlap, verdict) ==
    << IF geometry.valid THEN "boundary verified" ELSE "boundary issue",
       IF landuse.land_score > 4000 THEN "land is agricultural"
       ELSE "land not clearly agricultural",
       IF ndvi.agriculture_score > 3000 THEN "healthy crop growth"
       ELSE "limited vegetation",
       IF crop.crop_score > 5000 THEN "climate suitable" ELSE "climate may not be ideal",
       IF overlap.overlap_score >= 700 THEN "possible boundary overlap"
       ELSE "no boundary conflicts",
       IF verdict = "PASS" THEN "successfully validated"
       ELSE IF verdict = "REVIEW" THEN "requires manual review"
       ELSE "could not be approved" >>

\* The six sentences, in order.
GenerateExplainability(geometry, ndvi, landuse, crop, overlap, verdict) ==
    << IF geometry.valid THEN "boundary verified" ELSE "boundary issue",
       IF landuse.land_score > 4000 THEN "land is agricultural"
       ELSE "land not clearly agricultural",
       IF ndvi.agriculture_score > 3000 THEN "healthy crop growth"
       ELSE "limited vegetation",
       IF crop.crop_score > 5000 THEN "climate suitable" ELSE "climate may not be ideal",
       IF overlap.overlap_score < 700 THEN "possible boundary overlap"
       ELSE "no boundary conflicts",
       IF verdict = "PASS" THEN "successfully validated"
       ELSE IF verdict = "REVIEW" THEN "requires manual review"
       ELSE "could not be approved" >>

\* No call of a pure function under way, no ScoringEngine constructed.
NoArgs == [fn |-> "none"]
NotReturned == [done |-> FALSE]
Returned(value) == [done |-> TRUE, value |-> value]
NoEngine == [state |-> "none"]
NoCompute == [state |-> "none"]
NoSoil == [pc |-> "none"]

FnIdle ==
    /\ sev_ratio = 0
    /\ sev_out = "unset"
    /\ soil = NoSoil
    /\ config_weights = SCORING_WEIGHTS
    /\ fn_arg = NoArgs
    /\ fn_out = NotReturned
    /\ engine = NoEngine
    /\ engine_call = NoCompute

\* The module globals of geometry.py after import: nothing loaded.
NotLoaded == [state |-> "None", load |-> 0]

WorldIdle ==
    /\ world_gdf = NotLoaded
    /\ world_buffered = NotLoaded
    /\ wpc = <<>>
    /\ wret = <<>>
    /\ loads = 0
    /\ wcalls = 0

OvIdle ==
    /\ opc = [t \in {} |-> "idle"]
    /\ oreq = <<>>
    /\ opath = <<>>
    /\ ores = <<>>
    /\ oseen = <<>>
    /\ ocalls = 0
    /\ appendLog = <<>>
    /\ traffic = [polygons |-> {}, stores |-> {}]

\* ------------------------------------------------------------------------
\* main.py: validate_plot, one request at a time
\* ------------------------------------------------------------------------

\* compute_overlap_score(geojson_polygon, farmer_id) as one step: whether it
\* raised, its result, and the new _LOCAL_PLOTS.  raises: the reprojection or
\* the intersection inside _compute_local_overlap raises for this polygon.
OverlapOutcome(raised, result, plots) ==
    [raised |-> raised, result |-> result, plots |-> plots]

ComputeOverlapScore(plots, polygon, farmer_id, store, raises) ==
    LET local == ComputeLocalOverlap(plots, polygon, farmer_id)
        cached == TryCachePolygon(plots, plots, polygon, farmer_id)
        local_raises == raises /\ polygon.kind \in {"ok", "line"}
    IN  IF store.kind = "row"
        THEN OverlapOutcome(FALSE, PrimaryResult(store),
                            IF store.new_area = 0 THEN plots ELSE cached)
        ELSE IF local_raises
             THEN OverlapOutcome(TRUE, ErrorResult("raised"), plots)
        ELSE IF store.kind = "nodata"
             THEN OverlapOutcome(FALSE, local, cached)
        ELSE OverlapOutcome(FALSE, HandlerResult(local), cached)

\* The requests clients send and the answers the providers give.
PipePolygons ==
    {WholePlot, PlotTwo, Poly("invalid", {1, 2}), Poly("missing", {})}

Crops == {" Rice", "teff"}

GeoAnswers ==
    {GeoFacts(TRUE, "Asia", 200, 1, 800),
     GeoFacts(TRUE, "none", 100000, 1, 800),
     GeoFacts(FALSE, "none", 200, 1, 800)}

NdviAnswers ==
    {NdviData(TRUE, 0, 0, 0, 0),
     NdviData(FALSE, 0, 0, 0, 0),
     NdviData(FALSE, 12, 500, 8, 2),
     NdviData(FALSE, 12, 250, 0, 10),
     NdviData(FALSE, 12, 100, 2, 8)}

LandAnswers ==
    {LandData(TRUE, 0, 0, 0),
     LandData(FALSE, 0, 0, 0),
     LandData(FALSE, 40, 9, 0),
     LandData(FALSE, 40, 9, 1)}

ClimateAnswers ==
    {ClimateData(TRUE, 0, 0, 0),
     ClimateData(FALSE, 1500, 25, 100),
     ClimateData(FALSE, 1000, 25, 100),
     ClimateData(FALSE, 500, 25, 100),
     ClimateData(FALSE, 1500, 25, 3000)}

StoreAnswers ==
    {StoreRaises, StoreNoData, StoreRow(0, 20), StoreRow(7, 20), StoreRow(10, 20),
     StoreRow(5, 0)}

NoEnv ==
    [geo |-> GeoFacts(TRUE, "Asia", 200, 1, 800),
     ndvi |-> NdviData(FALSE, 0, 0, 0, 0),
     land |-> LandData(FALSE, 0, 0, 0),
     climate |-> ClimateData(FALSE, 1500, 25, 100),
     store |-> StoreNoData,
     raises |-> FALSE]

NoPrev == [repeat |-> FALSE]

NoGeometry == GeometryResult(FALSE, 0, "unset")

NoNdvi == NdviResult(0, "unset")

NoLand == LandResult(0, "unset")

NoCrop == CropResult(0, "unset")

NoScoring == [final_score |-> -1, contribution_breakdown |-> <<>>]

\* The response as far as the pipeline got, and how the request ended.
Response ==
    [outcome |-> pc, decision |-> decision, final_score |-> scoring_output.final_score,
     geometry |-> geometry_result, ndvi |-> ndvi_result, land_use |-> landuse_result,
     crop_engine |-> crop_result, overlap |-> overlap_result,
     explainability |-> explainability]

\* A provider asked again by a repeated request gives the answer it gave.
AnswersOf(provider, answers) ==
    IF prev.repeat THEN {prev.env[provider]} ELSE answers

Fresh ==
    /\ env = NoEnv
    /\ geometry_result = NoGeometry
    /\ ndvi_result = NoNdvi
    /\ landuse_result = NoLand
    /\ crop_result = NoCrop
    /\ overlap_result = NoResult
    /\ scoring_output = NoScoring
    /\ decision = "none"
    /\ explainability = <<>>
    /\ calls = <<>>

PipeIdle ==
    /\ pc = "idle"
    /\ req = [farmer_id |-> "", crop |-> "", polygon |-> Poly("none", {})]
    /\ Fresh
    /\ served = 0
    /\ cache0 = <<>>
    /\ prev = NoPrev

Init ==
    /\ LOCAL_PLOTS = <<>>
    /\ PipeIdle
    /\ OvIdle
    /\ WorldIdle
    /\ FnIdle

Ended == pc \in {"responded", "http400", "http500"}

\* Lines 61-64: a request arrives; one without a polygon is refused.
TakeRequest(r, previous) ==
    /\ served < MaxRequests
    /\ served' = served + 1
    /\ req' = r
    /\ prev' = previous
    /\ cache0' = LOCAL_PLOTS
    /\ pc' = IF r.polygon.kind = "missing" THEN "http400" ELSE "geometry"
    /\ env' = NoEnv
    /\ geometry_result' = NoGeometry
    /\ ndvi_result' = NoNdvi
    /\ landuse_result' = NoLand
    /\ crop_result' = NoCrop
    /\ overlap_result' = NoResult
    /\ scoring_output' = NoScoring
    /\ decision' = "none"
    /\ explainability' = <<>>
    /\ calls' = <<>>
    /\ UNCHANGED <<LOCAL_PLOTS, fnVars, ovVars, worldVars>>

Submit ==
    /\ pc = "idle" \/ Ended
    /\ \E f \in Farmers, c \in Crops, p \in PipePolygons :
           TakeRequest([farmer_id |-> f, crop |-> c, polygon |-> p], NoPrev)

\* The same request again, every provider answering as before.
Resubmit ==
    /\ Ended
    /\ TakeRequest(req, [repeat |-> TRUE, env |-> env, response |-> Response])

\* Lines 71-76: invalid geometry ends the request.
StageAfterGeometry(result) == IF ~result.valid THEN "responded" ELSE "ndvi"

StageAfterNdviNoStop(result) == "landuse"

\* Lines 84-90: the vegetation hard fail ends the request.
StageAfterNdvi(result) ==
    IF result.agriculture_score < 1500 THEN "responded" ELSE "landuse"

\* Line 95: whatever the land score, the request goes on to the crop stage.
StageAfterLanduse(result) == "crop"

\* Lines 123-143: the overlap overrides end the request.
StageAfterOverlap(result) ==
    IF result.severity = "critical" THEN "responded"
    ELSE IF result.severity = "fraud_risk" THEN "responded"
    ELSE "aggregate"

OverrideDecision(result) ==
    IF result.severity = "critical" THEN "FAIL"
    ELSE IF result.severity = "fraud_risk" THEN "REVIEW"
    ELSE "none"

\* Lines 69-76
GeometryStage ==
    /\ pc = "geometry"
    /\ \E geo \in AnswersOf("geo", GeoAnswers) :
           LET result == ValidateGeometry(req.polygon, geo)
           IN  /\ env' = [env EXCEPT !.geo = geo]
               /\ geometry_result' = result
               /\ pc' = StageAfterGeometry(result)
               /\ decision' = IF pc' = "responded" THEN "FAIL" ELSE decision
    /\ calls' = Append(calls, "geometry")
    /\ UNCHANGED <<LOCAL_PLOTS, fnVars, ovVars, worldVars, req,
                   ndvi_result, landuse_result,
                   crop_result, overlap_result, scoring_output, explainability,
                   served, cache0, prev>>

\* Lines 81-90
NdviStage ==
    /\ pc = "ndvi"
    /\ \E data \in AnswersOf("ndvi", NdviAnswers) :
           /\ env' = [env EXCEPT !.ndvi = data]
           /\ IF data.raises
              THEN /\ pc' = "http500"
                   /\ UNCHANGED <<ndvi_result, decision>>
              ELSE LET result == ValidateNdvi(data)
                   IN  /\ ndvi_result' = result
                       /\ pc' = StageAfterNdvi(result)
                       /\ decision' = IF pc' = "responded" THEN "FAIL" ELSE decision
    /\ calls' = Append(calls, "ndvi")
    /\ UNCHANGED <<LOCAL_PLOTS, fnVars, ovVars, worldVars, req,
                   geometry_result, landuse_result,
                   crop_result, overlap_result, scoring_output, explainability,
                   served, cache0, prev>>

\* Line 95
LanduseStage ==
    /\ pc = "landuse"
    /\ \E data \in AnswersOf("land", LandAnswers) :
           /\ env' = [env EXCEPT !.land = data]
           /\ IF data.raises
              THEN /\ pc' = "http500"
                   /\ UNCHANGED landuse_result
              ELSE /\ landuse_result' = ComputeLandUseScore(data)
                   /\ pc' = StageAfterLanduse(landuse_result')
    /\ calls' = Append(calls, "landuse")
    /\ UNCHANGED <<LOCAL_PLOTS, fnVars, ovVars, worldVars, req,
                   geometry_result, ndvi_result,
                   crop_result, overlap_result, scoring_output, decision,
                   explainability, served, cache0, prev>>

\* Lines 100-112: a provider that raises, or a crop with no row in the table
\* (get_crop_requirements raises ValueError), ends the request with an error.
CropStage ==
    /\ pc = "crop"
    /\ \E data \in AnswersOf("climate", ClimateAnswers) :
           /\ env' = [env EXCEPT !.climate = data]
           /\ IF data.raises \/ Normalise(req.crop) \notin DOMAIN CropRows
              THEN /\ pc' = "http500"
                   /\ UNCHANGED crop_result
              ELSE /\ crop_result' = EvaluateCrop(req.crop, data)
                   /\ pc' = "overlap"
    /\ calls' = Append(calls, "crop")
    /\ UNCHANGED <<LOCAL_PLOTS, fnVars, ovVars, worldVars, req,
                   geometry_result, ndvi_result,
                   landuse_result, overlap_result, scoring_output, decision,
                   explainability, served, cache0, prev>>

\* Lines 117-143
OverlapStage ==
    /\ pc = "overlap"
    /\ \E store \in AnswersOf("store", StoreAnswers),
          raises \in AnswersOf("raises", BOOLEAN) :
           LET out == ComputeOverlapScore(LOCAL_PLOTS, req.polygon, req.farmer_id,
                                          store, raises)
           IN  /\ env' = [env EXCEPT !.store = store, !.raises = raises]
               /\ LOCAL_PLOTS' = out.plots
               /\ IF out.raised
                  THEN /\ pc' = "http500"
                       /\ UNCHANGED <<overlap_result, decision>>
                  ELSE /\ overlap_result' = out.result
                       /\ pc' = StageAfterOverlap(out.result)
                       /\ decision' = IF pc' = "responded"
                                      THEN OverrideDecision(out.result)
                                      ELSE decision
    /\ calls' = Append(calls, "overlap")
    /\ UNCHANGED <<fnVars, ovVars, worldVars, req, geometry_result, ndvi_result,
                   landuse_result,
                   crop_result, scoring_output, explainability, served, cache0, prev>>

\* Lines 153-159
ModuleScores ==
    [geometry |-> geometry_result.geometry_score,
     ndvi |-> ndvi_result.agriculture_score,
     land |-> landuse_result.land_score,
     crop |-> crop_result.crop_score,
     overlap |-> 10 * overlap_result.overlap_score]

\* Lines 148-170: the engine is built, computes, and the thresholds decide.
AggregateStage ==
    /\ pc = "aggregate"
    /\ IF WeightsValid(config_weights) /\ ScoresAccepted(config_weights, ModuleScores)
       THEN /\ scoring_output' = Compute(config_weights, ModuleScores)
            /\ decision' = Decide(scoring_output'.final_score)
            /\ pc' = "explain"
       ELSE /\ pc' = "http500"
            /\ UNCHANGED <<scoring_output, decision>>
    /\ calls' = Append(calls, "aggregate")
    /\ UNCHANGED <<LOCAL_PLOTS, fnVars, ovVars, worldVars, req,
                   env, geometry_result, ndvi_result,
                   landuse_result, crop_result, overlap_result, explainability,
                   served, cache0, prev>>

\* Lines 176-199
ExplainStage ==
    /\ pc = "explain"
    /\ explainability' = GenerateExplainability(geometry_result, ndvi_result,
                                                landuse_result, crop_result,
                                                overlap_result, decision)
    /\ pc' = "responded"
    /\ calls' = Append(calls, "explain")
    /\ UNCHANGED <<LOCAL_PLOTS, fnVars, ovVars, worldVars, req,
                   env, geometry_result, ndvi_result,
                   landuse_result, crop_result, overlap_result, scoring_output,
                   decision, served, cache0, prev>>

Next ==
    \/ Submit
    \/ Resubmit
    \/ GeometryStage
    \/ NdviStage
    \/ LanduseStage
    \/ CropStage
    \/ OverlapStage
    \/ AggregateStage
    \/ ExplainStage

Spec == Init /\ [][Next]_vars

\* ------------------------------------------------------------------------
\* SpecConfig: validate_plot deployed with config.py as shipped or with a
\* SCORING_WEIGHTS edited so that it no longer sums to 1.0
\* ------------------------------------------------------------------------

\* config.py's weights with ndvi lowered from 0.25 to 0.15: they sum to 0.9.
MisconfiguredWeights == [SCORING_WEIGHTS EXCEPT !.ndvi = 150000]

ConfigInit ==
    /\ config_weights \in {SCORING_WEIGHTS, MisconfiguredWeights}
    /\ LOCAL_PLOTS = <<>>
    /\ PipeIdle
    /\ OvIdle
    /\ WorldIdle
    /\ sev_ratio = 0
    /\ sev_out = "unset"
    /\ soil = NoSoil
    /\ fn_arg = NoArgs
    /\ fn_out = NotReturned
    /\ engine = NoEngine
    /\ engine_call = NoCompute

SpecConfig == ConfigInit /\ [][Next]_vars

\* ------------------------------------------------------------------------
\* SpecSeverity: _classify_severity on every ratio k/RatioDen of [0, 1]
\* ------------------------------------------------------------------------

SevInit ==
    /\ sev_ratio \in 0 .. RatioDen
    /\ sev_out = "unset"
    /\ soil = NoSoil
    /\ config_weights = SCORING_WEIGHTS
    /\ fn_arg = NoArgs
    /\ fn_out = NotReturned
    /\ engine = NoEngine
    /\ engine_call = NoCompute
    /\ LOCAL_PLOTS = <<>>
    /\ OvIdle
    /\ PipeIdle
    /\ WorldIdle

Classify ==
    /\ sev_out = "unset"
    /\ sev_out' = ClassifySeverity(sev_ratio, RatioDen)
    /\ UNCHANGED <<soil, config_weights, sev_ratio, fn_arg, fn_out, engine, engine_call,
                   LOCAL_PLOTS, ovVars,
                   pipeVars, worldVars>>

SevNext == Classify

SpecSeverity == SevInit /\ [][SevNext]_vars

\* ------------------------------------------------------------------------
\* SpecOverlap: threads of the server's pool calling compute_overlap_score
\* ------------------------------------------------------------------------

Threads == {1, 2}

\* SpecOverlap: one thread, every kind of submission and of store answer.
\* SpecConcurrent: the threads of the pool, well-formed polygons.
AllTraffic == [polygons |-> Polygons, stores |-> StoreResponses]

PoolTraffic ==
    [polygons |-> {WholePlot, PlotTwo},
     stores |-> {StoreRaises, StoreNoData, StoreRow(7, 20)}]

NoRequest == [farmer_id |-> "", polygon |-> Poly("none", {}), store |-> StoreNoData]

\* The store cannot measure a GeoJSON that is no polygon: it raises, has no
\* rows, or reports new_area = 0.
StoreResponsesFor(polygon) ==
    IF polygon.kind = "ok" THEN StoreResponses
    ELSE {r \in StoreResponses : r.kind # "row" \/ r.new_area = 0}

OvInitFor(threads, load) ==
    /\ LOCAL_PLOTS = <<>>
    /\ opc = [t \in threads |-> "idle"]
    /\ oreq = [t \in threads |-> NoRequest]
    /\ opath = [t \in threads |-> "none"]
    /\ ores = [t \in threads |-> NoResult]
    /\ oseen = [t \in threads |-> <<>>]
    /\ ocalls = 0
    /\ appendLog = <<>>
    /\ traffic = load
    /\ PipeIdle
    /\ WorldIdle
    /\ FnIdle

\* compute_overlap_score(geojson_polygon, farmer_id) is entered.
OvCall(t) ==
    /\ opc[t] = "idle"
    /\ ocalls < MaxCalls
    /\ \E f \in Farmers, p \in traffic.polygons :
           oreq' = [oreq EXCEPT ![t] = [farmer_id |-> f, polygon |-> p, store |-> StoreNoData]]
    /\ opc' = [opc EXCEPT ![t] = "rpc"]
    /\ opath' = [opath EXCEPT ![t] = "none"]
    /\ ores' = [ores EXCEPT ![t] = NoResult]
    /\ oseen' = [oseen EXCEPT ![t] = LOCAL_PLOTS]
    /\ ocalls' = ocalls + 1
    /\ UNCHANGED <<LOCAL_PLOTS, appendLog, traffic, fnVars, pipeVars, worldVars>>

\* Lines 135-193: the RPC and what the try block does with its answer.
OvRpc(t) ==
    /\ opc[t] = "rpc"
    /\ \E r \in StoreResponsesFor(oreq[t].polygon) \cap traffic.stores :
           /\ oreq' = [oreq EXCEPT ![t].store = r]
           /\ CASE r.kind = "raise" ->
                     /\ opc' = [opc EXCEPT ![t] = "handler"]
                     /\ opath' = [opath EXCEPT ![t] = "exception"]
                     /\ ores' = ores
                [] r.kind = "nodata" ->
                     /\ opc' = [opc EXCEPT ![t] = "local"]
                     /\ opath' = [opath EXCEPT ![t] = "nodata"]
                     /\ ores' = ores
                [] OTHER ->
                     /\ opc' = [opc EXCEPT ![t] =
                                   IF r.new_area = 0 THEN "returned" ELSE "cache"]
                     /\ opath' = [opath EXCEPT ![t] = "primary"]
                     /\ ores' = [ores EXCEPT ![t] = PrimaryResult(r)]
    /\ UNCHANGED <<LOCAL_PLOTS, oseen, ocalls, appendLog, traffic, fnVars, pipeVars,
                   worldVars>>

\* Line 147: _compute_local_overlap inside the try block.  A call it makes
\* (_area_m2, intersection) may raise; the except branch then takes over.
OvLocal(t) ==
    /\ opc[t] = "local"
    /\ oseen' = [oseen EXCEPT ![t] = LOCAL_PLOTS]
    /\ \E raises \in BOOLEAN :
           IF raises /\ oreq[t].polygon.kind \in {"ok", "line"}
           THEN /\ opc' = [opc EXCEPT ![t] = "handler"]
                /\ ores' = ores
           ELSE /\ opc' = [opc EXCEPT ![t] = "cache"]
                /\ ores' = [ores EXCEPT ![t] =
                               ComputeLocalOverlap(LOCAL_PLOTS, oreq[t].polygon,
                                                   oreq[t].farmer_id)]
    /\ UNCHANGED <<LOCAL_PLOTS, oreq, opath, ocalls, appendLog, traffic, fnVars, pipeVars,
                   worldVars>>

\* Lines 199-201: _compute_local_overlap in the except branch, where nothing
\* catches what it raises.
OvHandler(t) ==
    /\ opc[t] = "handler"
    /\ oseen' = [oseen EXCEPT ![t] = LOCAL_PLOTS]
    /\ \E raises \in BOOLEAN :
           IF raises /\ oreq[t].polygon.kind \in {"ok", "line"}
           THEN /\ opc' = [opc EXCEPT ![t] = "raised"]
                /\ ores' = ores
           ELSE /\ opc' = [opc EXCEPT ![t] = "cache"]
                /\ ores' = [ores EXCEPT ![t] =
                               HandlerResult(
                                 ComputeLocalOverlap(LOCAL_PLOTS, oreq[t].polygon,
                                                     oreq[t].farmer_id))]
    /\ UNCHANGED <<LOCAL_PLOTS, oreq, opath, ocalls, appendLog, traffic, fnVars, pipeVars,
                   worldVars>>

\* Lines 148, 192, 203: _try_cache_polygon, then return result.
OvCache(t) ==
    /\ opc[t] = "cache"
    /\ LOCAL_PLOTS' = TryCachePolygon(LOCAL_PLOTS, oseen[t], oreq[t].polygon,
                                      oreq[t].farmer_id)
    /\ appendLog' = IF Cacheable(oreq[t].polygon)
                    THEN Append(appendLog, Plot(oreq[t].farmer_id, oreq[t].polygon))
                    ELSE appendLog
    /\ opc' = [opc EXCEPT ![t] = "returned"]
    /\ UNCHANGED <<oreq, opath, ores, oseen, ocalls, traffic, fnVars, pipeVars, worldVars>>

\* The thread takes its next request.
OvDone(t) ==
    /\ opc[t] \in {"returned", "raised"}
    /\ ocalls < MaxCalls
    /\ opc' = [opc EXCEPT ![t] = "idle"]
    /\ oreq' = [oreq EXCEPT ![t] = NoRequest]
    /\ opath' = [opath EXCEPT ![t] = "none"]
    /\ ores' = [ores EXCEPT ![t] = NoResult]
    /\ oseen' = [oseen EXCEPT ![t] = <<>>]
    /\ UNCHANGED <<LOCAL_PLOTS, ocalls, appendLog, traffic, fnVars, pipeVars, worldVars>>

OvNext ==
    \/ \E t \in DOMAIN opc : OvCall(t)
    \/ \E t \in DOMAIN opc : OvRpc(t)
    \/ \E t \in DOMAIN opc : OvLocal(t)
    \/ \E t \in DOMAIN opc : OvHandler(t)
    \/ \E t \in DOMAIN opc : OvCache(t)
    \/ \E t \in DOMAIN opc : OvDone(t)

OvInit == OvInitFor({1}, AllTraffic)

SpecOverlap == OvInit /\ [][OvNext]_vars

ConcInit == OvInitFor(Threads, PoolTraffic)

SpecConcurrent == ConcInit /\ [][OvNext]_vars

\* ------------------------------------------------------------------------
\* SpecWorld: threads of the server's pool in geometry.py's _load_world_data
\* ------------------------------------------------------------------------

\* A value of _world_gdf or _world_buffered: None, or the object built by the
\* load-th execution of the loading block.
Loaded(state, load) == [state |-> state, load |-> load]

NoPair == <<NotLoaded, NotLoaded>>

WorldInit ==
    /\ world_gdf = NotLoaded
    /\ world_buffered = NotLoaded
    /\ wpc = [t \in Threads |-> "idle"]
    /\ wret = [t \in Threads |-> NoPair]
    /\ loads = 0
    /\ wcalls = 0
    /\ LOCAL_PLOTS = <<>>
    /\ OvIdle
    /\ PipeIdle
    /\ FnIdle

\* Line 86: validate_geometry calls _load_world_data().
WCall(t) ==
    /\ wpc[t] = "idle"
    /\ wcalls < MaxWorldCalls
    /\ wcalls' = wcalls + 1
    /\ wpc' = [wpc EXCEPT ![t] = "check"]
    /\ wret' = [wret EXCEPT ![t] = NoPair]
    /\ UNCHANGED <<world_gdf, world_buffered, loads, LOCAL_PLOTS, fnVars, ovVars, pipeVars>>

\* Line 20: if _world_gdf is None
FirstUse(gdf) == gdf.state = "None"

WCheck(t) ==
    /\ wpc[t] = "check"
    /\ wpc' = [wpc EXCEPT ![t] = IF FirstUse(world_gdf) THEN "read" ELSE "return"]
    /\ UNCHANGED <<world_gdf, world_buffered, wret, loads, wcalls, LOCAL_PLOTS, fnVars,
                   ovVars, pipeVars>>

\* Line 23: _world_gdf = gpd.read_file(DATA_PATH)
WRead(t) ==
    /\ wpc[t] = "read"
    /\ loads' = loads + 1
    /\ world_gdf' = Loaded("raw", loads')
    /\ wpc' = [wpc EXCEPT ![t] = "crs"]
    /\ UNCHANGED <<world_buffered, wret, wcalls, LOCAL_PLOTS, fnVars, ovVars, pipeVars>>

\* Lines 25-28: _world_gdf = _world_gdf.to_crs("EPSG:4326"), a new table made
\* from the one the global holds now.
WCrs(t) ==
    /\ wpc[t] = "crs"
    /\ world_gdf' = Loaded("table", world_gdf.load)
    /\ wpc' = [wpc EXCEPT ![t] = "buffer"]
    /\ UNCHANGED <<world_buffered, wret, loads, wcalls, LOCAL_PLOTS, fnVars, ovVars,
                   pipeVars>>

\* Lines 31-34: _world_buffered = _world_gdf.geometry.unary_union.buffer(0.05)
WBuffer(t) ==
    /\ wpc[t] = "buffer"
    /\ world_buffered' = Loaded("geom", world_gdf.load)
    /\ wpc' = [wpc EXCEPT ![t] = "return"]
    /\ UNCHANGED <<world_gdf, wret, loads, wcalls, LOCAL_PLOTS, fnVars, ovVars, pipeVars>>

\* Line 36: return _world_gdf, _world_buffered
WReturn(t) ==
    /\ wpc[t] = "return"
    /\ wret' = [wret EXCEPT ![t] = <<world_gdf, world_buffered>>]
    /\ wpc' = [wpc EXCEPT ![t] = "returned"]
    /\ UNCHANGED <<world_gdf, world_buffered, loads, wcalls, LOCAL_PLOTS, fnVars, ovVars,
                   pipeVars>>

\* The thread takes its next request.
WDone(t) ==
    /\ wpc[t] = "returned"
    /\ wcalls < MaxWorldCalls
    /\ wpc' = [wpc EXCEPT ![t] = "idle"]
    /\ wret' = [wret EXCEPT ![t] = NoPair]
    /\ UNCHANGED <<world_gdf, world_buffered, loads, wcalls, LOCAL_PLOTS, fnVars, ovVars,
                   pipeVars>>

WorldNext ==
    \/ \E t \in Threads : WCall(t)
    \/ \E t \in Threads : WCheck(t)
    \/ \E t \in Threads : WRead(t)
    \/ \E t \in Threads : WCrs(t)
    \/ \E t \in Threads : WBuffer(t)
    \/ \E t \in Threads : WReturn(t)
    \/ \E t \in Threads : WDone(t)

SpecWorld == WorldInit /\ [][WorldNext]_vars

\* ------------------------------------------------------------------------
\* SpecEngine: a ScoringEngine is constructed on some weight set, then
\* compute is called on it with some scores
\* ------------------------------------------------------------------------

Components == DOMAIN SCORING_WEIGHTS

\* The weight sets tried: the configured one; sums 0.9 and 1.1; sums one and
\* two millionths off 1.0; one with a negative weight; one on two components.
WeightSets ==
    {SCORING_WEIGHTS,
     [SCORING_WEIGHTS EXCEPT !.geometry = 50000],
     [SCORING_WEIGHTS EXCEPT !.geometry = 250000],
     [SCORING_WEIGHTS EXCEPT !.geometry = 150001],
     [SCORING_WEIGHTS EXCEPT !.geometry = 149999],
     [SCORING_WEIGHTS EXCEPT !.geometry = 150002],
     [SCORING_WEIGHTS EXCEPT !.geometry = 149998],
     [geometry |-> -250000, ndvi |-> 500000, land |-> 250000, crop |-> 250000,
      overlap |-> 250000],
     [geometry |-> 400000, crop |-> 600000]}

\* The scores tried, in units of 1/10000, on any subset of the components.
ScoreValues == {-1, 0, 3333, 10000, 10001}

ScoreMaps == UNION {[D -> ScoreValues] : D \in SUBSET Components}

EngineInit ==
    /\ engine \in {[state |-> "unbuilt", weights |-> w, threshold |-> PASS_THRESHOLD] :
                       w \in WeightSets}
    /\ engine_call = NoCompute
    /\ sev_ratio = 0
    /\ sev_out = "unset"
    /\ soil = NoSoil
    /\ config_weights = SCORING_WEIGHTS
    /\ fn_arg = NoArgs
    /\ fn_out = NotReturned
    /\ LOCAL_PLOTS = <<>>
    /\ OvIdle
    /\ PipeIdle
    /\ WorldIdle

\* ScoringEngine.__init__: the fields are set, then _validate_weights raises
\* or returns.
Construct ==
    /\ engine.state = "unbuilt"
    /\ engine' = [engine EXCEPT !.state = IF WeightsValid(engine.weights)
                                           THEN "ready" ELSE "ValueError"]
    /\ UNCHANGED <<engine_call, soil, config_weights, sev_ratio, sev_out, fn_arg, fn_out,
                   LOCAL_PLOTS,
                   ovVars, pipeVars, worldVars>>

\* ScoringEngine.compute(scores) on the constructed engine.
ComputeCall ==
    /\ engine.state = "ready"
    /\ engine_call = NoCompute
    /\ \E scores \in ScoreMaps :
           engine_call' =
               IF ScoresAccepted(engine.weights, scores)
               THEN LET c == Compute(engine.weights, scores)
                    IN  [state |-> "returned", scores |-> scores,
                         out |-> [final_score |-> c.final_score,
                                  decision |-> EngineDecision(c.final_score,
                                                              engine.threshold),
                                  contribution_breakdown |->
                                      c.contribution_breakdown]]
               ELSE [state |-> "ValueError", scores |-> scores]
    /\ UNCHANGED <<engine, soil, config_weights, sev_ratio, sev_out, fn_arg, fn_out, LOCAL_PLOTS,
                   ovVars, pipeVars, worldVars>>

EngineNext ==
    \/ Construct
    \/ ComputeCall

SpecEngine == EngineInit /\ [][EngineNext]_vars

\* ------------------------------------------------------------------------
\* SpecTrapezoid: one call of trapezoidal_suitability
\* ------------------------------------------------------------------------

TrapValues == {5 * k : k \in 0 .. TrapMax}

\* The calls tried: any value against any knots in non-decreasing order.
TrapCalls ==
    {[fn |-> "trapezoidal_suitability", value |-> v, abs_min |-> a[1],
      opt_min |-> a[2], opt_max |-> a[3], abs_max |-> a[4]] :
         v \in TrapValues,
         a \in {k \in TrapValues \X TrapValues \X TrapValues \X TrapValues :
                    k[1] <= k[2] /\ k[2] <= k[3] /\ k[3] <= k[4]}}

TrapInit ==
    /\ fn_arg \in TrapCalls
    /\ fn_out = NotReturned
    /\ sev_ratio = 0
    /\ sev_out = "unset"
    /\ soil = NoSoil
    /\ config_weights = SCORING_WEIGHTS
    /\ engine = NoEngine
    /\ engine_call = NoCompute
    /\ LOCAL_PLOTS = <<>>
    /\ OvIdle
    /\ PipeIdle
    /\ WorldIdle

TrapCall ==
    /\ fn_arg.fn = "trapezoidal_suitability"
    /\ fn_out = NotReturned
    /\ fn_out' = Returned(TrapezoidalSuitability(fn_arg.value, fn_arg.abs_min,
                              fn_arg.opt_min, fn_arg.opt_max, fn_arg.abs_max))
    /\ UNCHANGED <<fn_arg, soil, config_weights, sev_ratio, sev_out, engine, engine_call,
                   LOCAL_PLOTS,
                   ovVars, pipeVars, worldVars>>

TrapNext == TrapCall

SpecTrapezoid == TrapInit /\ [][TrapNext]_vars

\* ------------------------------------------------------------------------
\* SpecCrop: one call of evaluate_crop whose providers answer and whose crop
\* is in the table
\* ------------------------------------------------------------------------

RainfallValues == {600 + 200 * k : k \in 0 .. CropGrid}
TemperatureValues == {12 + 2 * k : k \in 0 .. CropGrid}
ElevationValues == {250 * k - 260 : k \in 0 .. CropGrid}

CropCalls ==
    {[fn |-> "evaluate_crop", crop |-> " Rice",
      data |-> ClimateData(FALSE, r, t, e)] :
         r \in RainfallValues, t \in TemperatureValues, e \in ElevationValues}

CropInit ==
    /\ fn_arg \in CropCalls
    /\ fn_out = NotReturned
    /\ sev_ratio = 0
    /\ sev_out = "unset"
    /\ soil = NoSoil
    /\ config_weights = SCORING_WEIGHTS
    /\ engine = NoEngine
    /\ engine_call = NoCompute
    /\ LOCAL_PLOTS = <<>>
    /\ OvIdle
    /\ PipeIdle
    /\ WorldIdle

CropCall ==
    /\ fn_arg.fn = "evaluate_crop"
    /\ fn_out = NotReturned
    /\ fn_out' = Returned(EvaluateCrop(fn_arg.crop, fn_arg.data))
    /\ UNCHANGED <<fn_arg, soil, config_weights, sev_ratio, sev_out, engine, engine_call,
                   LOCAL_PLOTS,
                   ovVars, pipeVars, worldVars>>

CropNext == CropCall

SpecCrop == CropInit /\ [][CropNext]_vars

\* ------------------------------------------------------------------------
\* SpecExplain: one call of generate_explainability
\* ------------------------------------------------------------------------

\* The calls tried: each score at, just below and just above the threshold
\* the function compares it with.
ExplainCalls ==
    {[fn |-> "generate_explainability",
      geometry |-> [valid |-> v],
      landuse |-> [land_score |-> l],
      ndvi |-> [agriculture_score |-> a],
      crop |-> [crop_score |-> c],
      overlap |-> [overlap_score |-> o],
      decision |-> d] :
         v \in BOOLEAN, l \in {3999, 4000, 4001}, a \in {2999, 3000, 3001},
         c \in {4999, 5000, 5001}, o \in {699, 700, 701},
         d \in {"PASS", "REVIEW", "FAIL"}}

ExplainInit ==
    /\ fn_arg \in ExplainCalls
    /\ fn_out = NotReturned
    /\ sev_ratio = 0
    /\ sev_out = "unset"
    /\ soil = NoSoil
    /\ config_weights = SCORING_WEIGHTS
    /\ engine = NoEngine
    /\ engine_call = NoCompute
    /\ LOCAL_PLOTS = <<>>
    /\ OvIdle
    /\ PipeIdle
    /\ WorldIdle

ExplainCall ==
    /\ fn_arg.fn = "generate_explainability"
    /\ fn_out = NotReturned
    /\ fn_out' = Returned(GenerateExplainability(fn_arg.geometry, fn_arg.ndvi,
                              fn_arg.landuse, fn_arg.crop, fn_arg.overlap,
                              fn_arg.decision))
    /\ UNCHANGED <<fn_arg, soil, config_weights, sev_ratio, sev_out, engine, engine_call,
                   LOCAL_PLOTS,
                   ovVars, pipeVars, worldVars>>

ExplainNext == ExplainCall

SpecExplain == ExplainInit /\ [][ExplainNext]_vars

\* ------------------------------------------------------------------------
\* SpecGeometry: one call of validate_geometry on a well-formed polygon
\* ------------------------------------------------------------------------

\* The continents of REGION_THRESHOLDS, one outside the table, and "none"
\* for a polygon no country intersects.
GeoContinents ==
    {"Asia", "Africa", "Europe", "North America", "South America", "Oceania",
     "Antarctica", "none"}

\* The areas tried on a continent, in hundredths of a hectare: every quarter
\* of the large threshold, and a hundredth of a hectare below and above it.
GeoAreas(continent) ==
    {a \in {25 * RegionThresholds(continent).large * k + d :
                k \in 0 .. GeoGrid, d \in {-1, 0, 1}} : a >= 0}

GeometryCalls ==
    {[fn |-> "validate_geometry", polygon |-> WholePlot,
      geo |-> GeoFacts(TRUE, c, a, 1, m)] :
         c \in GeoContinents, a \in UNION {GeoAreas(k) : k \in GeoContinents},
         m \in {800, 200}}

GeometryInit ==
    /\ fn_arg \in {g \in GeometryCalls : g.geo.area \in GeoAreas(g.geo.continent)}
    /\ fn_out = NotReturned
    /\ sev_ratio = 0
    /\ sev_out = "unset"
    /\ soil = NoSoil
    /\ config_weights = SCORING_WEIGHTS
    /\ engine = NoEngine
    /\ engine_call = NoCompute
    /\ LOCAL_PLOTS = <<>>
    /\ OvIdle
    /\ PipeIdle
    /\ WorldIdle

GeometryCall ==
    /\ fn_arg.fn = "validate_geometry"
    /\ fn_out = NotReturned
    /\ fn_out' = Returned(ValidateGeometry(fn_arg.polygon, fn_arg.geo))
    /\ UNCHANGED <<fn_arg, soil, config_weights, sev_ratio, sev_out, engine, engine_call,
                   LOCAL_PLOTS,
                   ovVars, pipeVars, worldVars>>

GeometryNext == GeometryCall

SpecGeometry == GeometryInit /\ [][GeometryNext]_vars

\* ------------------------------------------------------------------------
\* SpecNdvi: one call of validate_ndvi whose imagery source answers
\* ------------------------------------------------------------------------

NdviCalls ==
    {[fn |-> "validate_ndvi", data |-> NdviData(FALSE, i, 250 * k - 500, v, n)] :
         i \in {0, 12}, k \in 0 .. NdviGrid, v \in 0 .. PixelMax, n \in 0 .. PixelMax}

NdviInit ==
    /\ fn_arg \in NdviCalls
    /\ fn_out = NotReturned
    /\ sev_ratio = 0
    /\ sev_out = "unset"
    /\ soil = NoSoil
    /\ config_weights = SCORING_WEIGHTS
    /\ engine = NoEngine
    /\ engine_call = NoCompute
    /\ LOCAL_PLOTS = <<>>
    /\ OvIdle
    /\ PipeIdle
    /\ WorldIdle

NdviCall ==
    /\ fn_arg.fn = "validate_ndvi"
    /\ fn_out = NotReturned
    /\ fn_out' = Returned(ValidateNdvi(fn_arg.data))
    /\ UNCHANGED <<fn_arg, soil, config_weights, sev_ratio, sev_out, engine, engine_call,
                   LOCAL_PLOTS,
                   ovVars, pipeVars, worldVars>>

NdviNext == NdviCall

SpecNdvi == NdviInit /\ [][NdviNext]_vars

\* ------------------------------------------------------------------------
\* SpecLand: one call of compute_land_use_score whose source answers
\* ------------------------------------------------------------------------

LandCalls ==
    {[fn |-> "compute_land_use_score", data |-> LandData(FALSE, i, c, n)] :
         i \in {0, 40}, c \in 0 .. LandPixels, n \in 0 .. LandPixels}

LandInit ==
    /\ fn_arg \in LandCalls
    /\ fn_out = NotReturned
    /\ sev_ratio = 0
    /\ sev_out = "unset"
    /\ soil = NoSoil
    /\ config_weights = SCORING_WEIGHTS
    /\ engine = NoEngine
    /\ engine_call = NoCompute
    /\ LOCAL_PLOTS = <<>>
    /\ OvIdle
    /\ PipeIdle
    /\ WorldIdle

LandCall ==
    /\ fn_arg.fn = "compute_land_use_score"
    /\ fn_out = NotReturned
    /\ fn_out' = Returned(ComputeLandUseScore(fn_arg.data))
    /\ UNCHANGED <<fn_arg, soil, config_weights, sev_ratio, sev_out, engine, engine_call,
                   LOCAL_PLOTS,
                   ovVars, pipeVars, worldVars>>

LandNext == LandCall

SpecLand == LandInit /\ [][LandNext]_vars

\* ------------------------------------------------------------------------
\* backend/app/soilgrids_service.py: fetch_soil_data, _call_soilgrids_api
\* SpecSoil: one call of fetch_soil_data, one step per HTTP request
\* ------------------------------------------------------------------------

\* max_retries of _call_soilgrids_api, which fetch_soil_data leaves at its
\* default.
DefaultMaxRetries == 3

CoordinatesLatitudeOnly(latitude, longitude) ==
    -90 <= latitude /\ latitude <= 90

\* Lines 45-48: neither check raises.
CoordinatesValid(latitude, longitude) ==
    /\ -90 <= latitude /\ latitude <= 90
    /\ -180 <= longitude /\ longitude <= 180

\* What one requests.get / raise_for_status / response.json() can do.
Outcome(kind, status) == [kind |-> kind, status |-> status]

\* Invalid JSON is a requests.exceptions.JSONDecodeError (a RequestException)
\* or a plain ValueError, depending on the version of requests.
HttpOutcomes ==
    {Outcome("ok", 200), Outcome("timeout", 0), Outcome("connection", 0),
     Outcome("request", 0), Outcome("json_request", 200), Outcome("json_value", 200)}
    \cup {Outcome("http", c) : c \in {400, 404, 429, 500, 502, 503, 504}}

RetriedAnyStatus(outcome) ==
    outcome.kind \in {"timeout", "connection", "request", "json_request", "http"}

\* The except clauses that sleep and continue when an attempt is left.
Retried(outcome) ==
    \/ outcome.kind \in {"timeout", "connection", "request", "json_request"}
    \/ outcome.kind = "http" /\ outcome.status \in {503, 429, 502, 504}

SoilCall(latitude, longitude, use_fallback) ==
    [pc |-> "called", latitude |-> latitude, longitude |-> longitude,
     use_fallback |-> use_fallback, max_retries |-> DefaultMaxRetries,
     attempt |-> 0, history |-> <<>>, sleeps |-> <<>>, error |-> "none",
     source |-> "none"]

SoilInit ==
    /\ soil \in {SoilCall(lat, lon, f) :
                     lat \in {-91, -90, 0, 30, 60, 90, 95},
                     lon \in {-181, -180, 0, 180, 200},
                     f \in BOOLEAN}
    /\ config_weights = SCORING_WEIGHTS
    /\ sev_ratio = 0
    /\ sev_out = "unset"
    /\ fn_arg = NoArgs
    /\ fn_out = NotReturned
    /\ engine = NoEngine
    /\ engine_call = NoCompute
    /\ LOCAL_PLOTS = <<>>
    /\ OvIdle
    /\ PipeIdle
    /\ WorldIdle

\* Lines 45-52: the coordinates are checked, then _call_soilgrids_api is
\* entered; with nothing to attempt its loop is skipped and line 157 raises.
SoilValidate ==
    /\ soil.pc = "called"
    /\ soil' = IF ~CoordinatesValid(soil.latitude, soil.longitude)
               THEN [soil EXCEPT !.pc = "ValueError"]
               ELSE IF soil.attempt < soil.max_retries
               THEN [soil EXCEPT !.pc = "request"]
               ELSE [soil EXCEPT !.pc = "except", !.error = "failed after all attempts"]
    /\ UNCHANGED <<config_weights, sev_ratio, sev_out, fn_arg, fn_out, engine,
                   engine_call, LOCAL_PLOTS, ovVars, pipeVars, worldVars>>

\* Lines 119-157: one iteration of the retry loop.
SoilRequest ==
    /\ soil.pc = "request"
    /\ \E outcome \in HttpOutcomes :
           LET made == [soil EXCEPT !.history = Append(@, outcome)]
           IN  soil' =
                   IF outcome.kind = "ok" THEN [made EXCEPT !.pc = "parse"]
                   ELSE IF outcome.kind = "json_value"
                   THEN [made EXCEPT !.pc = "except", !.error = "invalid JSON"]
                   ELSE IF Retried(outcome)
                   THEN IF soil.attempt < soil.max_retries - 1
                        THEN [made EXCEPT !.sleeps = Append(@, 2 ^ soil.attempt),
                                          !.attempt = @ + 1]
                        ELSE IF outcome.kind = "http"
                        THEN [made EXCEPT !.pc = "except", !.error = "returned error"]
                        ELSE [made EXCEPT !.pc = "except", !.attempt = @ + 1,
                                          !.error = "failed after all attempts"]
                   ELSE [made EXCEPT !.pc = "except", !.error = "returned error"]
    /\ UNCHANGED <<config_weights, sev_ratio, sev_out, fn_arg, fn_out, engine,
                   engine_call, LOCAL_PLOTS, ovVars, pipeVars, worldVars>>

\* Lines 55-74: the response is parsed and classified; a response without the
\* expected layers makes _parse_soil_response raise SoilGridsError.
SoilParse ==
    /\ soil.pc = "parse"
    /\ \E well_formed \in BOOLEAN :
           soil' = IF well_formed
                   THEN [soil EXCEPT !.pc = "returned", !.source = "soilgrids"]
                   ELSE [soil EXCEPT !.pc = "except", !.error = "unexpected response"]
    /\ UNCHANGED <<config_weights, sev_ratio, sev_out, fn_arg, fn_out, engine,
                   engine_call, LOCAL_PLOTS, ovVars, pipeVars, worldVars>>

\* Lines 76-81: except SoilGridsError.
SoilExcept ==
    /\ soil.pc = "except"
    /\ soil' = IF soil.use_fallback
               THEN [soil EXCEPT !.pc = "returned", !.source = "fallback"]
               ELSE [soil EXCEPT !.pc = "SoilGridsError"]
    /\ UNCHANGED <<config_weights, sev_ratio, sev_out, fn_arg, fn_out, engine,
                   engine_call, LOCAL_PLOTS, ovVars, pipeVars, worldVars>>

SoilNext ==
    \/ SoilValidate
    \/ SoilRequest
    \/ SoilParse
    \/ SoilExcept

\* Every step of the call is taken once it can be: requests.get has a
\* timeout and time.sleep returns.
SpecSoil == SoilInit /\ [][SoilNext]_vars /\ WF_vars(SoilNext)

\* ------------------------------------------------------------------------
\* Properties of the overlap detector
\* ------------------------------------------------------------------------

\* The severity ladder of the specification, on the ratio n/d.
SpecLadder(n, d) ==
    IF n = 0 THEN "none"
    ELSE IF 10 * n < d THEN "minor"
    ELSE IF 10 * n < 3 * d THEN "moderate"
    ELSE IF 2 * n < d THEN "fraud_risk"
    ELSE "critical"

\* C1: every ratio of [0, 1] is classified by the five-step ladder: 0 none,
\* below 0.10 minor, below 0.30 moderate, below 0.50 fraud_risk, else critical.
C1_FiveStepLadder ==
    sev_out # "unset" => sev_out = SpecLadder(sev_ratio, RatioDen)

\* A call that has computed its result on the fallback path.
FallbackDone(t) ==
    /\ opc[t] \in {"cache", "returned"}
    /\ opath[t] \in {"nodata", "exception"}

\* The overlap cannot be computed: the GeoJSON is no polygon with an area, or
\* the store's row has no new_area.
CannotCompute(t) ==
    \/ oreq[t].polygon.kind # "ok"
    \/ opath[t] = "primary" /\ oreq[t].store.new_area = 0

\* C5: compute_overlap_score never lets an exception out, and a call whose
\* overlap cannot be computed returns severity error with overlap_score 0.
C5_FailSafe ==
    \A t \in DOMAIN opc :
        /\ opc[t] # "raised"
        /\ (opc[t] = "returned" /\ CannotCompute(t)
              => ores[t].severity = "error" /\ ores[t].overlap_score = 0)

\* The cached plots of farmers other than farmer_id.
RECURSIVE OthersOnly(_, _)
OthersOnly(plots, farmer_id) ==
    IF plots = <<>> THEN <<>>
    ELSE IF Head(plots).farmer_id = farmer_id THEN OthersOnly(Tail(plots), farmer_id)
    ELSE <<Head(plots)>> \o OthersOnly(Tail(plots), farmer_id)

SameNumbers(r1, r2) ==
    /\ r1.overlap_ratio = r2.overlap_ratio
    /\ r1.overlap_score = r2.overlap_score
    /\ r1.severity = r2.severity

\* C6: on the fallback path the result for farmer F is the one the cache gives
\* with all of F's own polygons removed.
C6_SelfOverlapExcluded ==
    \A t \in DOMAIN opc :
        FallbackDone(t) =>
            SameNumbers(ores[t],
                        ComputeLocalOverlap(OthersOnly(oseen[t], oreq[t].farmer_id),
                                            oreq[t].polygon, oreq[t].farmer_id))

\* A farmer resubmits a polygon the cache already holds for that farmer, no
\* other farmer's polygon intersects it, and the result is ratio 0, none.
C6_Witness ==
    \E t \in DOMAIN opc :
        /\ FallbackDone(t)
        /\ opc[t] = "returned"
        /\ \E i \in 1 .. Len(oseen[t]) :
               oseen[t][i] = Plot(oreq[t].farmer_id, oreq[t].polygon)
        /\ oreq[t].polygon.kind = "ok"
        /\ ores[t].overlap_ratio = 0
        /\ ores[t].severity = "none"

\* The total area of the intersections of polygon with the cached plots of
\* other farmers.
RECURSIVE TotalOverlapArea(_, _, _)
TotalOverlapArea(plots, polygon, farmer_id) ==
    IF plots = <<>> THEN 0
    ELSE (IF Head(plots).farmer_id = farmer_id THEN 0
          ELSE SumArea(polygon.cells \cap Head(plots).polygon.cells))
         + TotalOverlapArea(Tail(plots), polygon, farmer_id)

\* The intersections of polygon with the other farmers' cached plots lie in
\* pairwise disjoint regions.
DisjointIntersections(plots, polygon, farmer_id) ==
    \A i, j \in 1 .. Len(plots) :
        i # j /\ plots[i].farmer_id # farmer_id /\ plots[j].farmer_id # farmer_id
            => polygon.cells \cap plots[i].polygon.cells \cap plots[j].polygon.cells = {}

\* C7: when the new polygon meets the other farmers' cached polygons in
\* disjoint regions, the fallback path's overlap_ratio is the total of the
\* intersection areas over the new polygon's area, clamped to [0, 1].
C7_FallbackSumsIntersections ==
    \A t \in DOMAIN opc :
        /\ FallbackDone(t)
        /\ ores[t].severity # "error"
        /\ DisjointIntersections(oseen[t], oreq[t].polygon, oreq[t].farmer_id)
        =>
            LET new_area == AreaM2(oreq[t].polygon)
                total == TotalOverlapArea(oseen[t], oreq[t].polygon, oreq[t].farmer_id)
            IN  ores[t].overlap_ratio = RoundHalfEven(1000 * Clamp01(total, new_area), new_area)

\* No call is inside compute_overlap_score.
Quiescent == \A t \in DOMAIN opc : opc[t] \in {"idle", "returned", "raised"}

\* C8: once all concurrent calls have returned, the cache holds one entry per
\* call that cached its polygon, each with that call's farmer_id and polygon.
C8_NoLostUpdate ==
    Quiescent => LOCAL_PLOTS = appendLog

\* Two calls both read the empty cache before either appended, both have
\* returned, and the cache holds both entries.
C8_Witness ==
    /\ \A t \in DOMAIN opc : opc[t] = "returned" /\ oseen[t] = <<>>
    /\ Cardinality(DOMAIN opc) = 2
    /\ Len(LOCAL_PLOTS) = 2

\* ------------------------------------------------------------------------
\* Properties of the landmass loader
\* ------------------------------------------------------------------------

\* C9: the shapefile is read at most once, and every pair _load_world_data
\* returns has both the country table and the buffered landmass set.
C9_LoadedOnceAndWhole ==
    /\ loads <= 1
    /\ \A t \in Threads :
           wpc[t] = "returned" =>
               wret[t][1].state = "table" /\ wret[t][2].state = "geom"

\* ------------------------------------------------------------------------
\* Properties of the orchestrator
\* ------------------------------------------------------------------------

Called(component) == \E i \in 1 .. Len(calls) : calls[i] = component

StageOrder == <<"geometry", "ndvi", "landuse", "crop", "overlap", "aggregate", "explain">>

\* C2: a request that reached the overlap stage with a ratio the ladder
\* classes critical ends in FAIL, with a ratio it classes fraud_risk in
\* REVIEW, in both cases without the aggregator or the explanation.
C2_OverlapOverrides ==
    pc = "responded" /\ Called("overlap") /\ overlap_result.severity # "error" =>
        LET severity == SpecLadder(overlap_result.overlap_ratio, 1000)
        IN  /\ severity = "critical" =>
                decision = "FAIL" /\ ~Called("aggregate") /\ ~Called("explain")
            /\ severity = "fraud_risk" =>
                decision = "REVIEW" /\ ~Called("aggregate") /\ ~Called("explain")

\* C3: the components are called in the fixed order; invalid geometry ends
\* the request in FAIL after geometry alone; a vegetation score below 0.15
\* ends it in FAIL after geometry and vegetation, the cache untouched.
C3_OrderAndShortCircuit ==
    /\ Len(calls) <= Len(StageOrder)
    /\ \A i \in 1 .. Len(calls) : calls[i] = StageOrder[i]
    /\ pc = "responded" /\ ~geometry_result.valid =>
           decision = "FAIL" /\ calls = <<"geometry">> /\ LOCAL_PLOTS = cache0
    /\ pc = "responded" /\ Called("ndvi") /\ ndvi_result.agriculture_score < 1500 =>
           decision = "FAIL" /\ calls = <<"geometry", "ndvi">> /\ LOCAL_PLOTS = cache0

\* A request with no imagery has ended in FAIL after two components, with a
\* cache that earlier requests had filled.
C3_Witness ==
    /\ pc = "responded"
    /\ ndvi_result.reason = "No satellite images available"
    /\ decision = "FAIL"
    /\ calls = <<"geometry", "ndvi">>
    /\ LOCAL_PLOTS # <<>>

\* C4: a response carries one of the three decisions, and when no override
\* applied the decision is the one the thresholds 0.65 and 0.45 give on
\* final_score.
C4_DecisionByThresholds ==
    /\ pc = "responded" => decision \in {"PASS", "REVIEW", "FAIL"}
    /\ pc \in {"explain", "responded"} /\ Called("aggregate") =>
           LET final_score == scoring_output.final_score
           IN  /\ final_score >= 6500 => decision = "PASS"
               /\ 4500 <= final_score /\ final_score < 6500 => decision = "REVIEW"
               /\ final_score < 4500 => decision = "FAIL"

\* The weighted path has answered REVIEW.
C4_Witness ==
    /\ pc = "responded"
    /\ Called("explain")
    /\ decision = "REVIEW"
    /\ scoring_output.final_score >= 4500
    /\ scoring_output.final_score < 6500

\* C10: a request that repeats the previous one, the providers answering as
\* before, ends as the previous one did: same component results, final_score
\* and decision.
C10_Idempotent ==
    Ended /\ prev.repeat => Response = prev.response

\* The repeated request went through the whole pipeline on the fallback path
\* with its own polygon, cached by the first run, in the cache.
C10_Witness ==
    /\ pc = "responded"
    /\ prev.repeat
    /\ Called("explain")
    /\ env.store.kind # "row"
    /\ \E i \in 1 .. Len(cache0) : cache0[i] = Plot(req.farmer_id, req.polygon)
    /\ \E i \in 1 .. Len(cache0) : cache0[i].farmer_id # req.farmer_id
    /\ overlap_result.severity = "moderate"

\* ------------------------------------------------------------------------
\* Properties of the aggregator
\* ------------------------------------------------------------------------

\* The sum of the weights the engine was constructed on, in millionths.
WeightSum == SumOver(engine.weights, DOMAIN engine.weights)

\* The sum is 1.0 within 1e-6.
SumIsOne == Abs(WeightSum - WeightOne) <= WeightOne \div 1000000

\* C11: construction succeeds on a weight set whose sum is 1.0 within 1e-6 and
\* raises on any other (0.9 and 1.1 among them), so an engine exists, and
\* compute runs, only on a weight set whose sum is 1.0 within 1e-6.
C11_WeightsValidated ==
    /\ engine.state = "ready" => SumIsOne
    /\ engine.state = "ValueError" => ~SumIsOne
    /\ engine.state # "unbuilt" /\ WeightSum \in {900000, 1100000}
           => engine.state = "ValueError"
    /\ engine_call # NoCompute => engine.state = "ready" /\ SumIsOne

C11_Witness ==
    /\ engine.state = "ValueError"
    /\ WeightSum = 1100000
    /\ engine_call = NoCompute

\* A weighted component has no score, or a score outside [0, 1].
SomeScoreBad ==
    \E m \in DOMAIN engine.weights :
        \/ m \notin DOMAIN engine_call.scores
        \/ engine_call.scores[m] < 0
        \/ engine_call.scores[m] > 10000

\* C12: compute raises exactly when a component of the weight set has no
\* score or a score outside [0, 1] (0 and 1 themselves are accepted), and a
\* call that raises returns no final_score, decision or breakdown.
C12_ComputeRejects ==
    engine_call # NoCompute =>
        /\ engine_call.state = "ValueError" <=> SomeScoreBad
        /\ engine_call.state = "returned" <=> ~SomeScoreBad
        /\ engine_call.state = "ValueError" => "out" \notin DOMAIN engine_call
        /\ engine_call.state = "returned" =>
               DOMAIN engine_call.out =
                   {"final_score", "decision", "contribution_breakdown"}

C12_Witness ==
    /\ engine_call.state = "ValueError"
    /\ \E m \in DOMAIN engine.weights : m \notin DOMAIN engine_call.scores
    /\ \A m \in DOMAIN engine_call.scores :
           engine_call.scores[m] \in {0, 10000}

\* value, in units of 1/10000, is within half a unit of (1000 * hi + lo) / 10^10.
WithinHalfUnit(value, hi, lo) ==
    LET x == 1000 * value - hi - (lo \div 1000)
        r == lo % 1000
    IN  /\ x <= (500000 + r) \div 1000
        /\ -x <= (500000 - r) \div 1000

\* C13: final_score is the weighted sum of the scores rounded to 4 decimals,
\* the breakdown has one entry weight * score (rounded to 4 decimals) per
\* component, the entries sum to final_score within rounding, and with the
\* configured weights all scores 1 give 1.0 and all scores 0 give 0.0.
C13_WeightedSum ==
    engine_call.state = "returned" =>
        LET w == engine.weights
            s == engine_call.scores
            out == engine_call.out
            hi == [m \in DOMAIN w |-> ProductHi(w[m], s[m])]
            lo == [m \in DOMAIN w |-> ProductLo(w[m], s[m])]
        IN  /\ WithinHalfUnit(out.final_score, SumOver(hi, DOMAIN w),
                              SumOver(lo, DOMAIN w))
            /\ DOMAIN out.contribution_breakdown = DOMAIN w
            /\ \A m \in DOMAIN w :
                   WithinHalfUnit(out.contribution_breakdown[m], hi[m], lo[m])
            /\ 2 * Abs(SumOver(out.contribution_breakdown, DOMAIN w)
                       - out.final_score) <= Cardinality(DOMAIN w) + 1
            /\ w = SCORING_WEIGHTS /\ (\A m \in DOMAIN w : s[m] = 10000)
                   => out.final_score = 10000
            /\ w = SCORING_WEIGHTS /\ (\A m \in DOMAIN w : s[m] = 0)
                   => out.final_score = 0

C13_Witness ==
    /\ engine_call.state = "returned"
    /\ engine.weights = SCORING_WEIGHTS
    /\ DOMAIN engine_call.scores = Components
    /\ \A m \in Components : engine_call.scores[m] = 3333
    /\ engine_call.out.final_score = 3333

\* ------------------------------------------------------------------------
\* Properties of the crop engine
\* ------------------------------------------------------------------------

\* The fraction p is at most the fraction q (denominators positive).
FracLeq(p, q) == p[1] * q[2] <= q[1] * p[2]

\* trapezoidal_suitability at another value, same knots as the call made.
TrapAt(u) ==
    TrapezoidalSuitability(u, fn_arg.abs_min, fn_arg.opt_min, fn_arg.opt_max,
                           fn_arg.abs_max)

\* C14: for abs_min < opt_min <= opt_max < abs_max, trapezoidal_suitability is
\* 0 at and outside abs_min and abs_max, 1 on [opt_min, opt_max],
\* (v - abs_min) / (opt_min - abs_min) on the rising ramp and
\* (abs_max - v) / (abs_max - opt_max) on the falling one; it is monotone on
\* each ramp, lies in [0, 1], and f(25,10,20,30,40) = 1, f(5,10,20,30,40) = 0,
\* f(15,10,20,30,40) = 0.5.
C14_Trapezoid ==
    (/\ fn_arg.fn = "trapezoidal_suitability"
     /\ fn_out.done
     /\ fn_arg.abs_min < fn_arg.opt_min
     /\ fn_arg.opt_min <= fn_arg.opt_max
     /\ fn_arg.opt_max < fn_arg.abs_max) =>
        LET v == fn_arg.value
            f == fn_out.value
            knots == <<fn_arg.abs_min, fn_arg.opt_min, fn_arg.opt_max, fn_arg.abs_max>>
        IN  /\ f[2] > 0 /\ 0 <= f[1] /\ f[1] <= f[2]
            /\ v <= knots[1] \/ v >= knots[4] => f[1] = 0
            /\ knots[2] <= v /\ v <= knots[3] => f[1] = f[2]
            /\ knots[1] < v /\ v < knots[2] =>
                   f[1] * (knots[2] - knots[1]) = (v - knots[1]) * f[2]
            /\ knots[3] < v /\ v < knots[4] =>
                   f[1] * (knots[4] - knots[3]) = (knots[4] - v) * f[2]
            /\ \A u \in TrapValues :
                   /\ knots[1] <= v /\ v <= u /\ u <= knots[2] => FracLeq(f, TrapAt(u))
                   /\ knots[3] <= v /\ v <= u /\ u <= knots[4] => FracLeq(TrapAt(u), f)
            /\ knots = <<10, 20, 30, 40>> /\ v = 25 => f[1] = f[2]
            /\ knots = <<10, 20, 30, 40>> /\ v = 5 => f[1] = 0
            /\ knots = <<10, 20, 30, 40>> /\ v = 15 => 2 * f[1] = f[2]

C14_Witness ==
    /\ fn_arg.fn = "trapezoidal_suitability"
    /\ fn_out.done
    /\ <<fn_arg.abs_min, fn_arg.opt_min, fn_arg.opt_max, fn_arg.abs_max>>
           = <<10, 20, 30, 40>>
    /\ fn_arg.value = 35
    /\ 2 * fn_out.value[1] = fn_out.value[2]

\* C15: when the rainfall suitability is 0 evaluate_crop returns crop_score 0
\* and the rainfall-unsuitable flag whatever the temperature and elevation;
\* otherwise crop_score is 0.45 * rainfall + 0.45 * temperature + 0.10 *
\* elevation suitability rounded to 3 decimals, with the acceptable flag;
\* crop_score is always in [0, 1].
C15_RainfallGate ==
    fn_arg.fn = "evaluate_crop" /\ fn_out.done =>
        LET q == Suitabilities(fn_arg.crop, fn_arg.data)
            w == WeightedSuitability(q)
            out == fn_out.value
        IN  /\ 0 <= out.crop_score /\ out.crop_score <= 10000
            /\ out.crop_score % 10 = 0
            /\ q.rainfall[1] = 0 =>
                   /\ out.crop_score = 0
                   /\ out.climate_flag = "Rainfall unsuitable"
            /\ q.rainfall[1] # 0 =>
                   /\ 2 * Abs((out.crop_score \div 10) * w[2] - w[1]) <= w[2]
                   /\ out.climate_flag = "Climate conditions acceptable"

C15_Witness ==
    /\ fn_arg.fn = "evaluate_crop"
    /\ fn_out.done
    /\ fn_arg.data.rainfall = 600
    /\ fn_arg.data.temperature = 26
    /\ fn_arg.data.elevation = 240
    /\ fn_out.value = CropResult(0, "Rainfall unsuitable")

\* ------------------------------------------------------------------------
\* Properties of the explanation
\* ------------------------------------------------------------------------

\* C19: generate_explainability returns exactly six sentences, in the order
\* geometry, land, vegetation, crop, overlap, closing; each of the first five
\* is the affirmative one exactly when, in turn, the geometry is valid,
\* land_score > 0.4, agriculture_score > 0.3, crop_score > 0.5 and
\* overlap_score >= 0.7; the closing one is keyed by the decision.
C19_SixSentences ==
    fn_arg.fn = "generate_explainability" /\ fn_out.done =>
        LET e == fn_out.value
        IN  /\ Len(e) = 6
            /\ e[1] \in {"boundary verified", "boundary issue"}
            /\ e[1] = "boundary verified" <=> fn_arg.geometry.valid
            /\ e[2] \in {"land is agricultural", "land not clearly agricultural"}
            /\ e[2] = "land is agricultural" <=> fn_arg.landuse.land_score > 4000
            /\ e[3] \in {"healthy crop growth", "limited vegetation"}
            /\ e[3] = "healthy crop growth" <=> fn_arg.ndvi.agriculture_score > 3000
            /\ e[4] \in {"climate suitable", "climate may not be ideal"}
            /\ e[4] = "climate suitable" <=> fn_arg.crop.crop_score > 5000
            /\ e[5] \in {"no boundary conflicts", "possible boundary overlap"}
            /\ e[5] = "no boundary conflicts" <=> fn_arg.overlap.overlap_score >= 700
            /\ fn_arg.decision = "PASS" => e[6] = "successfully validated"
            /\ fn_arg.decision = "REVIEW" => e[6] = "requires manual review"
            /\ fn_arg.decision = "FAIL" => e[6] = "could not be approved"

C19_Witness ==
    /\ fn_arg.fn = "generate_explainability"
    /\ fn_out.done
    /\ fn_arg.overlap.overlap_score = 700
    /\ fn_arg.landuse.land_score = 4000
    /\ fn_arg.decision = "REVIEW"
    /\ fn_out.value[5] = "no boundary conflicts"
    /\ fn_out.value[2] = "land not clearly agricultural"

\* ------------------------------------------------------------------------
\* Properties of the error handling of validate_plot
\* ------------------------------------------------------------------------

\* The crop stage has just run, its providers answered, and the crop has no
\* row in the table.
CropNotFound ==
    /\ calls # <<>>
    /\ calls[Len(calls)] = "crop"
    /\ ~env.climate.raises
    /\ Normalise(req.crop) \notin DOMAIN CropRows

\* C16: a crop with no matching row (names compared case-insensitively) ends
\* the request with a client error, not an internal server error, and with no
\* decision; a crop with a row goes on.
C16_CropNotFoundIsClientError ==
    /\ CropNotFound => pc = "http400" /\ decision = "none"
    /\ (calls # <<>> /\ calls[Len(calls)] = "crop" /\ ~env.climate.raises
          /\ Normalise(req.crop) \in DOMAIN CropRows) => pc = "overlap"

\* A provider was unavailable to the request being served.
ProviderUnavailable ==
    \/ env.ndvi.raises
    \/ env.land.raises
    \/ env.climate.raises
    \/ env.store.kind = "raise"

\* C17: no unavailability of an external provider leaves validate_plot as an
\* exception; the request still ends with a decision.
C17_ExternalFailuresDegrade ==
    ProviderUnavailable =>
        /\ pc # "http500"
        /\ Ended => decision \in {"PASS", "REVIEW", "FAIL"}

\* ------------------------------------------------------------------------
\* Properties of the overlap numbers
\* ------------------------------------------------------------------------

\* The areas behind the result of call t: the store's row on the primary
\* path, the cache's largest intersection and the polygon's area otherwise.
AreasOf(t) ==
    IF opath[t] = "primary"
    THEN [overlap_area |-> oreq[t].store.overlap_area,
          new_area |-> oreq[t].store.new_area]
    ELSE [overlap_area |-> LoopOverPlots(oseen[t], 0, oreq[t].polygon,
                                         oreq[t].farmer_id),
          new_area |-> AreaM2(oreq[t].polygon)]

\* overlap_ratio is overlap_area / new_area clamped to [0, 1] and
\* overlap_score is 1 - overlap_ratio, both in [0, 1].
NumbersClamped(t) ==
    LET a == AreasOf(t)
    IN  /\ ores[t].overlap_ratio =
               RoundHalfEven(1000 * Clamp01(a.overlap_area, a.new_area), a.new_area)
        /\ ores[t].overlap_score = 1000 - ores[t].overlap_ratio
        /\ ores[t].overlap_ratio \in 0 .. 1000
        /\ ores[t].overlap_score \in 0 .. 1000

OverlapNumbersClamped ==
    \A t \in DOMAIN opc :
        opc[t] = "returned" /\ ores[t].severity # "error" => NumbersClamped(t)

\* C18: every result that is not an error, on either path, has overlap_ratio
\* = clamp(overlap_area / new_area, 0, 1), overlap_score = 1 - overlap_ratio,
\* both in [0, 1], and the severity the five-step ladder gives the clamped
\* ratio.
C18_ClampedRatioAndLadder ==
    \A t \in DOMAIN opc :
        opc[t] = "returned" /\ ores[t].severity # "error" =>
            /\ NumbersClamped(t)
            /\ ores[t].severity =
                   SpecLadder(Clamp01(AreasOf(t).overlap_area, AreasOf(t).new_area),
                              AreasOf(t).new_area)

\* ------------------------------------------------------------------------
\* The worked example of a passing plot
\* ------------------------------------------------------------------------

\* The component results of the example: geometry 1.0, vegetation 0.62, land
\* 0.9, crop about 0.9, no overlap.
ExamplePlot ==
    /\ pc = "responded"
    /\ calls # <<>>
    /\ calls[Len(calls)] = "explain"
    /\ geometry_result.geometry_score = 10000
    /\ ndvi_result.agriculture_score = 6200
    /\ landuse_result.land_score = 9000
    /\ Abs(crop_result.crop_score - 9000) <= 500
    /\ overlap_result.severity = "none"
    /\ overlap_result.overlap_score = 1000

\* C20: the example plot is answered PASS with final_score 0.8 or more and
\* the explanation made of the five affirmative sentences and the PASS one.
C20_ExamplePasses ==
    ExamplePlot =>
        /\ decision = "PASS"
        /\ scoring_output.final_score >= 8000
        /\ explainability = <<"boundary verified", "land is agricultural",
                              "healthy crop growth", "climate suitable",
                              "no boundary conflicts", "successfully validated">>

C20_Witness ==
    /\ ExamplePlot
    /\ crop_result.crop_score = 9000
    /\ scoring_output.final_score = 8600
    /\ decision = "PASS"

\* ------------------------------------------------------------------------
\* Properties of the geometry, vegetation and land-use components
\* ------------------------------------------------------------------------

\* The area penalty of the specification times large, in units of 1/10000.
SpecPenaltyTimesLarge(area, large, extreme) ==
    IF area <= 100 * large THEN 0
    ELSE IF area >= 100 * extreme THEN 4000 * large
    ELSE Min(4000 * large, 15 * (area - 100 * large))

\* geometry_score of the same call at another area.
GeometryScoreAt(area) ==
    ValidateGeometry(fn_arg.polygon, [fn_arg.geo EXCEPT !.area = area]).geometry_score

\* C21: on a compact plot geometry_score is 1 minus the area penalty, which
\* is 0 up to large, min(0.4, 0.15 * (area / large - 1)) between large and
\* extreme and 0.4 from extreme on, for every continent's thresholds; the
\* penalty does not decrease with the area and never exceeds 0.4; for large
\* 500, extreme 2000 the areas 500, 1000 and 2000 give 0, 0.15 and 0.4.
C21_AreaPenalty ==
    (/\ fn_arg.fn = "validate_geometry"
     /\ fn_out.done
     /\ fn_out.value.valid
     /\ fn_arg.geo.compactness >= 300) =>
        LET t == RegionThresholds(fn_arg.geo.continent)
            area == fn_arg.geo.area
            score == fn_out.value.geometry_score
            p == SpecPenaltyTimesLarge(area, t.large, t.extreme)
        IN  /\ 2 * Abs(score * t.large - (10000 * t.large - p)) <= t.large
            /\ score >= 6000
            /\ score <= 10000
            /\ \A u \in GeoAreas(fn_arg.geo.continent) :
                   u >= area => GeometryScoreAt(u) <= score
            /\ t = [large |-> 500, extreme |-> 2000] =>
                   /\ area = 50000 => score = 10000
                   /\ area = 100000 => score = 8500
                   /\ area = 200000 => score = 6000

C21_Witness ==
    /\ fn_arg.fn = "validate_geometry"
    /\ fn_out.done
    /\ fn_arg.geo.continent = "North America"
    /\ fn_arg.geo.area = 500000
    /\ fn_arg.geo.compactness = 800
    /\ fn_out.value.valid
    /\ fn_out.value.geometry_score = 6000

\* C22: with no image available validate_ndvi returns agriculture_score 0
\* and the no-imagery reason, which ends the request; otherwise
\* agriculture_score is 0.6 * clamp(mean, 0, 1) + 0.4 * vegetated / total
\* (ratio 0 when total is 0) rounded to 3 decimals; it is always in [0, 1].
C22_VegetationScore ==
    fn_arg.fn = "validate_ndvi" /\ fn_out.done =>
        LET d == fn_arg.data
            out == fn_out.value
            total == d.veg + d.non_veg
            mean == IF d.mean < 0 THEN 0 ELSE IF d.mean > 1000 THEN 1000 ELSE d.mean
            den == IF total > 0 THEN total ELSE 1
            \* the unrounded score times 10000 * den
            exact == 6 * mean * den + (IF total > 0 THEN 4000 * d.veg ELSE 0)
        IN  /\ 0 <= out.agriculture_score /\ out.agriculture_score <= 10000
            /\ d.images = 0 =>
                   /\ out.agriculture_score = 0
                   /\ out.reason = "No satellite images available"
                   /\ StageAfterNdvi(out) = "responded"
            /\ d.images # 0 =>
                   /\ out.agriculture_score % 10 = 0
                   /\ 2 * Abs(out.agriculture_score * den - exact) <= 10 * den

C22_Witness ==
    /\ fn_arg.fn = "validate_ndvi"
    /\ fn_out.done
    /\ fn_arg.data.images = 12
    /\ fn_arg.data.mean = 1500
    /\ fn_arg.data.veg = 3
    /\ fn_arg.data.non_veg = 1
    /\ fn_out.value.agriculture_score = 9000

\* C23: compute_land_use_score returns land_score 0 with an explanation when
\* the source has no data, 0 when fewer than 10 pixels are classified (9
\* cropland pixels give 0, 10 pixels are scored), else cropland / total
\* rounded to 4 decimals; land_score is in [0, 1]; whatever it is the request
\* goes on.
C23_LandScore ==
    fn_arg.fn = "compute_land_use_score" /\ fn_out.done =>
        LET d == fn_arg.data
            out == fn_out.value
            total == d.crop + d.non_crop
        IN  /\ 0 <= out.land_score /\ out.land_score <= 10000
            /\ d.images = 0 =>
                   out.land_score = 0 /\ out.explanation = "No Dynamic World data available"
            /\ d.images # 0 /\ total < 10 => out.land_score = 0
            /\ d.images # 0 /\ total >= 10 =>
                   2 * Abs(out.land_score * total - 10000 * d.crop) <= total
            /\ StageAfterLanduse(out) = "crop"

C23_Witness ==
    /\ fn_arg.fn = "compute_land_use_score"
    /\ fn_out.done
    /\ fn_arg.data.images = 40
    /\ fn_arg.data.crop = 10
    /\ fn_arg.data.non_crop = 0
    /\ fn_out.value.land_score = 10000

\* ------------------------------------------------------------------------
\* Properties of the soil service
\* ------------------------------------------------------------------------

\* C24: fetch_soil_data raises ValueError for a latitude outside [-90, 90] or
\* a longitude outside [-180, 180], before any request is made and whatever
\* use_fallback is; such coordinates never give soil data, real or fallback.
C24_CoordinatesChecked ==
    (/\ soil.pc \notin {"none", "called"}
     /\ \/ soil.latitude < -90
        \/ soil.latitude > 90
        \/ soil.longitude < -180
        \/ soil.longitude > 180) =>
        /\ soil.pc = "ValueError"
        /\ soil.history = <<>>
        /\ soil.source = "none"

C24_Witness ==
    /\ soil.pc = "ValueError"
    /\ soil.latitude = 0
    /\ soil.longitude = 200
    /\ soil.use_fallback

\* The call of fetch_soil_data has ended.
SoilEnded == soil.pc \in {"returned", "ValueError", "SoilGridsError"}

\* The retry loop has been left.
SoilLoopLeft == soil.pc \in {"parse", "except", "returned", "SoilGridsError"}

\* The failures the loop retries, as the claim lists them.
TransientFailure(outcome) ==
    \/ outcome.kind \in {"timeout", "connection"}
    \/ outcome.kind = "http" /\ outcome.status \in {429, 502, 503, 504}

\* What holds of _call_soilgrids_api in every state.
RetryDiscipline ==
    soil.pc \notin {"none", "called", "ValueError"} =>
        LET h == soil.history
            n == Len(h)
        IN  /\ n <= soil.max_retries
            \* a request is made only after a failure that is retried
            /\ \A i \in 1 .. n - 1 : h[i].kind # "ok"
            /\ \A i \in 1 .. n - 1 :
                   ~(h[i].kind = "http" /\ h[i].status \notin {429, 502, 503, 504})
            \* the transient failures are retried while an attempt is left
            /\ (SoilLoopLeft /\ n > 0 /\ TransientFailure(h[n])) => n = soil.max_retries
            \* 2^attempt seconds between attempts, none after the last
            /\ soil.sleeps = [i \in 1 .. (IF SoilLoopLeft /\ n > 0 THEN n - 1 ELSE n)
                                 |-> 2 ^ (i - 1)]
            \* the first success is what is returned
            /\ soil.source = "soilgrids" => n > 0 /\ h[n].kind = "ok"
            /\ (SoilLoopLeft /\ n > 0 /\ h[n].kind = "ok")
                   => soil.error \in {"none", "unexpected response"}
            \* a failure ends as SoilGridsError, turned into fallback data
            /\ (SoilLoopLeft /\ n > 0 /\ h[n].kind # "ok") => soil.error # "none"
            /\ soil.pc = "SoilGridsError" => ~soil.use_fallback /\ soil.error # "none"
            /\ (soil.pc = "returned" /\ soil.error # "none") =>
                   soil.use_fallback /\ soil.source = "fallback"
            /\ (soil.pc = "returned" /\ soil.error = "none") => soil.source = "soilgrids"

C26_MisconfiguredNeverServes ==
    ~WeightsValid(config_weights) =>
        /\ decision = "none"
        /\ calls = <<>>

\* ------------------------------------------------------------------------
\* Properties of the cache under concurrent and repeated calls
\* ------------------------------------------------------------------------

\* Calls t and u are by different farmers, with polygons that intersect, and
\* both have returned from the fallback path.
FallbackPair(t, u) ==
    /\ t # u
    /\ opc[t] = "returned" /\ opc[u] = "returned"
    /\ opath[t] \in {"nodata", "exception"}
    /\ opath[u] \in {"nodata", "exception"}
    /\ oreq[t].farmer_id # oreq[u].farmer_id
    /\ oreq[t].polygon.kind = "ok" /\ oreq[u].polygon.kind = "ok"
    /\ oreq[t].polygon.cells \cap oreq[u].polygon.cells # {}

\* C27: of two concurrent calls by different farmers with intersecting
\* polygons, both on the fallback path, at least one reports a non-zero
\* overlap_ratio; never do both compare against a cache without the other's
\* polygon and both report none.
C27_CompareThenRecordAtomic ==
    \A t, u \in DOMAIN opc :
        FallbackPair(t, u) =>
            \/ ores[t].overlap_ratio > 0 /\ ores[t].severity # "none"
            \/ ores[u].overlap_ratio > 0 /\ ores[u].severity # "none"

\* Every step leaves the cache as it was or appends one entry to it.
CacheAppendOnly ==
    [][\/ LOCAL_PLOTS' = LOCAL_PLOTS
       \/ \E f \in Farmers, p \in Polygons :
              LOCAL_PLOTS' = Append(LOCAL_PLOTS, Plot(f, p))]_vars

\* What call t, now ended, is to have appended: its own entry, unless the
\* polygon cannot be cached or the primary path reported no new_area.
AppendsEntry(t) ==
    /\ Cacheable(oreq[t].polygon)
    /\ ~(opath[t] = "primary" /\ oreq[t].store.new_area = 0)

\* The cache after call t, against the cache the call found.
CacheAfterCall(t) ==
    LOCAL_PLOTS = IF AppendsEntry(t)
                  THEN Append(oseen[t], Plot(oreq[t].farmer_id, oreq[t].polygon))
                  ELSE oseen[t]

\* The calls that return a result append as stated.
ReturnedCallsAppendOnce ==
    \A t \in DOMAIN opc : opc[t] = "returned" => CacheAfterCall(t)

\* C28: a call leaves the entries of the cache as they were and appends at
\* most one: exactly one, (farmer_id, polygon), for a parseable, valid,
\* non-empty polygon on the primary path, the no-data fallback and the
\* exception fallback, whatever severity it returns, except on the primary
\* path's zero new_area return; none for an unparseable, invalid or empty one.
C28_OneEntryPerCall ==
    \A t \in DOMAIN opc : opc[t] \in {"returned", "raised"} => CacheAfterCall(t)

\* ------------------------------------------------------------------------
\* Properties of the aggregate's range
\* ------------------------------------------------------------------------

\* The output of the compute call made lies in range: final_score in [0, 1],
\* every contribution in [0, final_score].
OutputInRange ==
    LET out == engine_call.out
    IN  /\ 0 <= out.final_score /\ out.final_score <= 10000
        /\ \A m \in DOMAIN out.contribution_breakdown :
               /\ 0 <= out.contribution_breakdown[m]
               /\ out.contribution_breakdown[m] <= out.final_score

\* The range holds for the accepted weight sets without a negative weight.
NonNegativeWeightsInRange ==
    (/\ engine_call.state = "returned"
     /\ \A m \in DOMAIN engine.weights : engine.weights[m] >= 0) => OutputInRange

\* C29: for every weight set the constructor accepts and every score mapping
\* compute accepts, final_score is in [0, 1] and every entry of the
\* contribution breakdown is non-negative and at most final_score.
C29_ScoreAndContributionsInRange ==
    engine_call.state = "returned" => OutputInRange

\* ------------------------------------------------------------------------
\* Properties of the overlap error in the orchestrator
\* ------------------------------------------------------------------------

\* C30: a request whose overlap stage returned severity error never ends with
\* decision PASS, whatever the other four scores are.
C30_OverlapErrorNeverPasses ==
    (/\ Called("overlap")
     /\ overlap_result.severity = "error") => decision # "PASS"

====
